---- MODULE Spec2Model ----
(***************************************************************************)
(* Model of pyrocko/util.py: the time codec (str_to_time, time_to_str),    *)
(* the fixed-width unpacker (unpack_fixed) and the decimation table        *)
(* (mk_decitab, decitab, GlobalVars), with the parts of Python 2.7 and of  *)
(* the C library these functions call.                                     *)
(*                                                                         *)
(* Text is a sequence of one-character strings.  A Python integer is a     *)
(* sign and its decimal digits.  The epoch value given to time_to_str is   *)
(* the double nearest to whole + ticks/TicksPerSec, ticks carrying the     *)
(* sign of the number.  A float that float() made of a text is the decimal *)
(* number the text denotes (standing for the double nearest to it).  The   *)
(* result of a call is a record whose status is "ok" or the name of the    *)
(* exception that left the call.                                           *)
(***************************************************************************)
EXTENDS Integers, Sequences, FiniteSets, TLC

VARIABLES
    focus,          \* the component a behaviour exercises: "time", "unpack", "decitab"
    GlobalVars,     \* class GlobalVars: decitab_nmax, decitab, re_frac
    tin,            \* epoch value given to the last time_to_str
    ofmt,           \* format given to the last time_to_str
    txt,            \* result of the last time_to_str, or the text given to str_to_time
    ifmt,           \* format given to the last str_to_time
    tres,           \* result of the last str_to_time
    tpc,            \* "idle", "to_str", "to_time", "formatted", "roundtrip", "parsed"
    uformat,        \* unpack_fixed: the format argument
    uline,          \* unpack_fixed: the line argument
    ucallargs,      \* unpack_fixed: the callbacks given
    u,              \* unpack_fixed: the locals of the running call
    dres            \* result of the last mk_decitab or decitab call

vars == <<focus, GlobalVars, tin, ofmt, txt, ifmt, tres, tpc,
          uformat, uline, ucallargs, u, dres>>

-----------------------------------------------------------------------------
(* Bounds of the model *)

\* Resolution of the epoch values: ticks per second (0.0002 s per tick).
TicksPerSec == 5000

\* The most fields of a format given to unpack_fixed.
MaxFields == 3

\* The largest decimation factor asked of decitab; mk_decitab is called with
\* nmax up to twice that.
MaxDecim == 12

-----------------------------------------------------------------------------
(* Characters *)

Digits == <<"0", "1", "2", "3", "4", "5", "6", "7", "8", "9">>

IsDigit(c) == \E i \in 1..10 : Digits[i] = c

DigitVal(c) == (CHOOSE i \in 1..10 : Digits[i] = c) - 1

\* isspace() of the C locale: space, tab, newline, carriage return, form
\* feed and vertical tab
Whitespace == {" ", "\t", "\n", "\r", "\f", ""}

IsSpace(c) == c \in Whitespace

UpperCase == <<"A", "B", "C", "D", "E", "F", "G", "H", "I", "J", "K", "L", "M",
               "N", "O", "P", "Q", "R", "S", "T", "U", "V", "W", "X", "Y", "Z">>

LowerCase == <<"a", "b", "c", "d", "e", "f", "g", "h", "i", "j", "k", "l", "m",
               "n", "o", "p", "q", "r", "s", "t", "u", "v", "w", "x", "y", "z">>

\* tolower(), toupper() of the C locale
Lower(c) ==
    IF \E i \in 1..26 : UpperCase[i] = c
    THEN LowerCase[CHOOSE i \in 1..26 : UpperCase[i] = c] ELSE c

Upper(c) ==
    IF \E i \in 1..26 : LowerCase[i] = c
    THEN UpperCase[CHOOSE i \in 1..26 : LowerCase[i] = c] ELSE c

\* s.lower(), s.upper()
PyLower(s) == [i \in 1..Len(s) |-> Lower(s[i])]
PyUpper(s) == [i \in 1..Len(s) |-> Upper(s[i])]

Min(a, b) == IF a < b THEN a ELSE b
Max(a, b) == IF a > b THEN a ELSE b
Abs(x) == IF x < 0 THEN 0 - x ELSE x

\* n copies of the character c
Repeat(c, n) == IF n <= 0 THEN << >> ELSE [i \in 1..n |-> c]

AllDigits(s) == \A i \in 1..Len(s) : IsDigit(s[i])

\* The number a short string of digits denotes.
RECURSIVE DigitsVal(_)
DigitsVal(s) ==
    IF s = << >> THEN 0
    ELSE 10 * DigitsVal(SubSeq(s, 1, Len(s) - 1)) + DigitVal(s[Len(s)])

\* n written with exactly w digits, zero-padded (0 <= n < 10^w).
RECURSIVE ZeroPad(_, _)
ZeroPad(n, w) ==
    IF w <= 0 THEN << >> ELSE ZeroPad(n \div 10, w - 1) \o <<Digits[(n % 10) + 1]>>

\* n >= 0 written in decimal, as '%d' % n does.
RECURSIVE DecStr(_)
DecStr(n) == IF n < 10 THEN <<Digits[n + 1]>> ELSE DecStr(n \div 10) \o <<Digits[(n % 10) + 1]>>

\* The characters of a sequence of digit values
DigitChars(ds) == [i \in 1..Len(ds) |-> Digits[ds[i] + 1]]

-----------------------------------------------------------------------------
(* Python integers: [neg, mag], mag the decimal digits from the most       *)
(* significant one, without leading zeros (empty for 0).                   *)

MagStrip(m) ==
    IF \A i \in 1..Len(m) : m[i] = 0 THEN << >>
    ELSE SubSeq(m, CHOOSE i \in 1..Len(m) :
                       m[i] # 0 /\ \A j \in 1..(i - 1) : m[j] = 0, Len(m))

RECURSIVE MagOfNat(_)
MagOfNat(n) == IF n = 0 THEN << >> ELSE MagOfNat(n \div 10) \o <<n % 10>>

RECURSIVE MagVal(_)
MagVal(m) == IF m = << >> THEN 0 ELSE 10 * MagVal(SubSeq(m, 1, Len(m) - 1)) + m[Len(m)]

\* The Python integer n
Big(n) == [neg |-> n < 0, mag |-> MagOfNat(Abs(n))]

BigOfMag(neg, m) ==
    LET s == MagStrip(m)
    IN  [neg |-> neg /\ s # << >>, mag |-> s]

\* Whether b is small enough for arithmetic on it, and b as a number then
BigFits(b) == Len(b.mag) <= 9

BigToInt(b) == IF b.neg THEN 0 - MagVal(b.mag) ELSE MagVal(b.mag)

MagLess(a, b) ==
    \/ Len(a) < Len(b)
    \/ /\ Len(a) = Len(b)
       /\ \E i \in 1..Len(a) : a[i] < b[i] /\ \A j \in 1..(i - 1) : a[j] = b[j]

\* a + b + c of magnitudes, c a carry
RECURSIVE MagAdd(_, _, _)
MagAdd(a, b, c) ==
    IF a = << >> /\ b = << >> THEN (IF c = 0 THEN << >> ELSE <<c>>)
    ELSE LET x == IF a = << >> THEN 0 ELSE a[Len(a)]
             y == IF b = << >> THEN 0 ELSE b[Len(b)]
             s == x + y + c
         IN  MagAdd(SubSeq(a, 1, Len(a) - 1), SubSeq(b, 1, Len(b) - 1), s \div 10)
                \o <<s % 10>>

\* a - b - c of magnitudes with a >= b + c, c a borrow; leading zeros stay
RECURSIVE MagSub(_, _, _)
MagSub(a, b, c) ==
    IF a = << >> THEN << >>
    ELSE LET y == IF b = << >> THEN 0 ELSE b[Len(b)]
             d == a[Len(a)] - y - c
         IN  MagSub(SubSeq(a, 1, Len(a) - 1), SubSeq(b, 1, Len(b) - 1),
                    IF d < 0 THEN 1 ELSE 0)
                \o <<IF d < 0 THEN d + 10 ELSE d>>

\* m * k + c for a small number k
RECURSIVE MagMul(_, _, _)
MagMul(m, k, c) ==
    IF m = << >> THEN MagOfNat(c)
    ELSE LET v == m[Len(m)] * k + c
         IN  MagMul(SubSeq(m, 1, Len(m) - 1), k, v \div 10) \o <<v % 10>>

BigNeg(a) == [neg |-> ~a.neg /\ a.mag # << >>, mag |-> a.mag]

BigAdd(a, b) ==
    IF a.neg = b.neg THEN BigOfMag(a.neg, MagAdd(a.mag, b.mag, 0))
    ELSE IF MagLess(a.mag, b.mag) THEN BigOfMag(b.neg, MagSub(b.mag, a.mag, 0))
    ELSE BigOfMag(a.neg, MagSub(a.mag, b.mag, 0))

\* a * k for a small number k >= 0
BigMulSmall(a, k) == BigOfMag(a.neg, MagMul(a.mag, k, 0))

\* The index a Python integer n denotes in a sequence of length len when it
\* bounds a slice: negative ones count from the end, all are clamped.
PyIndex(n, len) ==
    IF n.neg
    THEN (IF ~BigFits(n) \/ BigToInt(n) + len < 0 THEN 0 ELSE BigToInt(n) + len)
    ELSE (IF ~BigFits(n) \/ BigToInt(n) > len THEN len ELSE BigToInt(n))

-----------------------------------------------------------------------------
(* Python's string primitives *)

\* s[a:b] for Python integers a and b
PySliceBig(s, a, b) ==
    LET lo == PyIndex(a, Len(s))
        hi == PyIndex(b, Len(s))
    IN  IF hi <= lo THEN << >> ELSE SubSeq(s, lo + 1, hi)

\* s[a:b] for small numbers a and b
PySlice(s, a, b) == PySliceBig(s, Big(a), Big(b))

\* s[a:]
PyFrom(s, a) == PySlice(s, a, Len(s))

\* s.rfind(c): the index from 0 of the last c in s, or -1.
PyRFind(s, c) ==
    IF \E i \in 1..Len(s) : s[i] = c
    THEN (CHOOSE i \in 1..Len(s) : s[i] = c /\ \A j \in (i+1)..Len(s) : s[j] # c) - 1
    ELSE -1

\* s.find(c)
PyFind(s, c) ==
    IF \E i \in 1..Len(s) : s[i] = c
    THEN (CHOOSE i \in 1..Len(s) : s[i] = c /\ \A j \in 1..(i-1) : s[j] # c) - 1
    ELSE -1

PyEndsWith(s, suf) ==
    /\ Len(s) >= Len(suf)
    /\ SubSeq(s, Len(s) - Len(suf) + 1, Len(s)) = suf

\* s.lstrip(), s.rstrip(), s.strip() on whitespace
PyLStrip(s) ==
    IF \A i \in 1..Len(s) : IsSpace(s[i]) THEN << >>
    ELSE SubSeq(s, CHOOSE i \in 1..Len(s) :
                       ~IsSpace(s[i]) /\ \A j \in 1..(i - 1) : IsSpace(s[j]), Len(s))

PyRStrip(s) ==
    IF \A i \in 1..Len(s) : IsSpace(s[i]) THEN << >>
    ELSE SubSeq(s, 1, CHOOSE i \in 1..Len(s) :
                          ~IsSpace(s[i]) /\ \A j \in (i + 1)..Len(s) : IsSpace(s[j]))

PyStrip(s) == PyLStrip(PyRStrip(s))

\* s.rstrip(c)
PyRStripChar(s, c) ==
    IF \A i \in 1..Len(s) : s[i] = c THEN << >>
    ELSE SubSeq(s, 1, CHOOSE i \in 1..Len(s) :
                          s[i] # c /\ \A j \in (i + 1)..Len(s) : s[j] = c)

\* s.split(sep)
RECURSIVE PySplit(_, _)
PySplit(s, sep) ==
    LET i == PyFind(s, sep)
    IN  IF i = -1 THEN <<s>>
        ELSE <<PySlice(s, 0, i)>> \o PySplit(PyFrom(s, i + 1), sep)

-----------------------------------------------------------------------------
(* Double precision: the epoch value t as Python holds it, and t - floor(t) *)
(* with the decimal digits the % operator, str() and repr() make of it.     *)
(* The fraction of a double is a sequence of base-4096 digits (12 bits      *)
(* each), the most significant first.                                       *)

RECURSIVE Pow2(_)
Pow2(n) == IF n <= 0 THEN 1 ELSE 2 * Pow2(n - 1)

RECURSIVE Pow10(_)
Pow10(n) == IF n <= 0 THEN 1 ELSE 10 * Pow10(n - 1)

\* The number of bits of n >= 0
RECURSIVE BitLen(_)
BitLen(n) == IF n = 0 THEN 0 ELSE 1 + BitLen(n \div 2)

\* The first n base-4096 digits of r/TicksPerSec (0 <= r < TicksPerSec) and
\* the remainder of the division
RECURSIVE FracLimbs(_, _)
FracLimbs(r, n) ==
    IF n = 0 THEN [limbs |-> << >>, rem |-> r]
    ELSE LET v    == r * 4096
             rest == FracLimbs(v % TicksPerSec, n - 1)
         IN  [limbs |-> <<v \div TicksPerSec>> \o rest.limbs, rem |-> rest.rem]

\* The number of zero bits r/TicksPerSec starts with (0 < r < TicksPerSec)
RECURSIVE LeadZ(_)
LeadZ(r) == IF 2 * r >= TicksPerSec THEN 0 ELSE 1 + LeadZ(2 * r)

LimbsZero(limbs) == \A i \in 1..Len(limbs) : limbs[i] = 0

\* The number of zero bits a fraction that is not 0 starts with
LeadingZeros(limbs) ==
    LET i ==
            CHOOSE k \in 1..Len(limbs) :
                limbs[k] # 0 /\ \A j \in 1..(k - 1) : limbs[j] = 0
    IN  12 * i - BitLen(limbs[i])

\* Bit j (from 1) of a fraction
LimbBit(limbs, j) ==
    LET i == (j - 1) \div 12 + 1
    IN  IF i > Len(limbs) THEN 0
        ELSE (limbs[i] \div Pow2(11 - ((j - 1) % 12))) % 2

\* The fraction plus v units of its last digit: the digits and the carry out
RECURSIVE LimbsInc(_, _)
LimbsInc(limbs, v) ==
    IF limbs = << >> THEN [carry |-> v, limbs |-> << >>]
    ELSE LET s == limbs[Len(limbs)] + v
             r == LimbsInc(SubSeq(limbs, 1, Len(limbs) - 1), s \div 4096)
         IN  [carry |-> r.carry, limbs |-> Append(r.limbs, s % 4096)]

\* The fraction times k, plus c units of its last digit (k <= 100000)
RECURSIVE LimbsMul(_, _, _)
LimbsMul(limbs, k, c) ==
    IF limbs = << >> THEN [carry |-> c, limbs |-> << >>]
    ELSE LET v == limbs[Len(limbs)] * k + c
             r == LimbsMul(SubSeq(limbs, 1, Len(limbs) - 1), k, v \div 4096)
         IN  [carry |-> r.carry, limbs |-> Append(r.limbs, v % 4096)]

\* 1 - f for a fraction f that is not 0
LimbsComplement(limbs) ==
    LimbsInc([i \in 1..Len(limbs) |-> 4095 - limbs[i]], 1).limbs

\* The fraction with zero digits appended up to n digits
LimbsPad(limbs, n) == limbs \o Repeat(0, n - Len(limbs))

\* The fraction rounded to F >= 1 bits, to nearest and an exact half to even;
\* sticky tells that the fraction continues beyond the digits given.
RoundLimbs(limbs, F, sticky) ==
    LET n == (F + 11) \div 12
        unit == Pow2(12 * n - F)
        padded == LimbsPad(limbs, n + 1)
        last == padded[n]
        low == last % unit
        below == \E i \in (n + 2)..Len(padded) : padded[i] # 0
        guard == IF unit > 1 THEN low >= unit \div 2 ELSE padded[n + 1] >= 2048
        rest ==
            IF unit > 1
            THEN low % (unit \div 2) # 0 \/ padded[n + 1] # 0 \/ below \/ sticky
            ELSE padded[n + 1] % 2048 # 0 \/ below \/ sticky
        odd == (last \div unit) % 2 = 1
        kept == Append(SubSeq(padded, 1, n - 1), last - low)
    IN  IF guard /\ (rest \/ odd) THEN LimbsInc(kept, unit)
        ELSE [carry |-> 0, limbs |-> kept]

\* The double nearest to t.whole + t.ticks/TicksPerSec: its sign, the whole
\* part and the fraction of its magnitude.
DoubleOf(t) ==
    LET W == Abs(t.whole)
        T == Abs(t.ticks)
        F == IF W > 0 THEN 53 - BitLen(W) ELSE LeadZ(T) + 53
        raw == FracLimbs(T, F \div 12 + 2)
        f == RoundLimbs(raw.limbs, F, raw.rem # 0)
    IN  IF T = 0 THEN [neg |-> t.whole < 0, whole |-> W, limbs |-> << >>]
        ELSE [neg |-> t.whole < 0 \/ t.ticks < 0,
              whole |-> W + f.carry, limbs |-> f.limbs]

\* math_floor, given x
math_floor_x(x) ==
    IF ~x.neg THEN x.whole
    ELSE IF LimbsZero(x.limbs) THEN 0 - x.whole
    ELSE 0 - x.whole - 1

\* math.floor(t)
math_floor(t) ==
    math_floor_x(DoubleOf(t))

\* Tfrac, given x
Tfrac_x(x) ==
    LET g == LimbsComplement(x.limbs)
        Fg == LeadingZeros(g) + 53
        r == RoundLimbs(g, Fg, FALSE)
    IN  IF LimbsZero(x.limbs) THEN [int |-> 0, limbs |-> << >>]
        ELSE IF ~x.neg THEN [int |-> 0, limbs |-> x.limbs]
        ELSE IF Fg >= 12 * Len(g) THEN [int |-> 0, limbs |-> g]
        ELSE [int |-> r.carry, limbs |-> r.limbs]

\* t - ts for ts = math.floor(t), a double in [0, 1]: int is its whole part
\* and limbs its fraction.  The difference is exact but for a negative t
\* above -1, where it is rounded to 53 bits.
Tfrac(t) ==
    Tfrac_x(DoubleOf(t))

IsZero(x) == x.int = 0 /\ LimbsZero(x.limbs)

\* The first N decimal digits of a fraction, and what remains of it (the
\* fraction times 10^N, less its whole part)
RECURSIVE DecDigits(_, _)
DecDigits(limbs, N) ==
    IF N <= 0 THEN [digs |-> << >>, rem |-> limbs]
    ELSE LET c == Min(N, 5)
             m == LimbsMul(limbs, Pow10(c), 0)
             r == DecDigits(m.limbs, N - c)
         IN  [digs |-> [i \in 1..c |-> (m.carry \div Pow10(c - i)) % 10] \o r.digs,
              rem |-> r.rem]

\* A fraction compared with 1/2: -1, 0 or 1
HalfCmp(limbs) ==
    IF limbs = << >> \/ limbs[1] < 2048 THEN -1
    ELSE IF limbs[1] > 2048 \/ (\E i \in 2..Len(limbs) : limbs[i] # 0) THEN 1
    ELSE 0

\* The number a sequence of decimal digits denotes, plus one
RECURSIVE DigInc(_)
DigInc(ds) ==
    IF ds = << >> THEN <<1>>
    ELSE IF ds[Len(ds)] < 9 THEN Append(SubSeq(ds, 1, Len(ds) - 1), ds[Len(ds)] + 1)
    ELSE Append(DigInc(SubSeq(ds, 1, Len(ds) - 1)), 0)

\* Digits rounded by what remains after them: to nearest, a half to even
RoundDigs(ds, rem) ==
    IF HalfCmp(rem) > 0 \/ (HalfCmp(rem) = 0 /\ ds[Len(ds)] % 2 = 1)
    THEN DigInc(ds) ELSE ds

RECURSIVE StripZeros(_)
StripZeros(ds) ==
    IF Len(ds) > 1 /\ ds[Len(ds)] = 0 THEN StripZeros(SubSeq(ds, 1, Len(ds) - 1)) ELSE ds

\* '%.<N>f' % x
FormatF(x, N) ==
    LET d == DecDigits(x.limbs, N)
        a == RoundDigs(<<x.int>> \o d.digs, d.rem)
        ip == SubSeq(a, 1, Len(a) - N)
        fp == SubSeq(a, Len(a) - N + 1, Len(a))
    IN  DigitChars(ip) \o (IF N > 0 THEN <<".">> \o DigitChars(fp) ELSE << >>)

\* The number of zeros the decimal expansion of a fraction (not 0) starts with
RECURSIVE LeadDecZeros(_)
LeadDecZeros(limbs) ==
    LET m == LimbsMul(limbs, 10, 0)
    IN  IF m.carry # 0 THEN 0 ELSE 1 + LeadDecZeros(m.limbs)

\* x (not 0) rounded to n significant digits: the digits and the position
\* decpt of the decimal point, x being about 0.digits * 10^decpt
SigDec(x, n) ==
    LET z == LeadDecZeros(x.limbs)
        d == DecDigits(DecDigits(x.limbs, z).rem, n)
        r == RoundDigs(d.digs, d.rem)
    IN  IF x.int = 1 THEN [digs |-> <<1>> \o Repeat(0, n - 1), decpt |-> 1]
        ELSE IF Len(r) > n THEN [digs |-> SubSeq(r, 1, n), decpt |-> 1 - z]
        ELSE [digs |-> r, decpt |-> 0 - z]

\* A whole number in base-4096 digits, the most significant first
IntLimbsStrip(l) ==
    IF LimbsZero(l) THEN << >>
    ELSE LET i == CHOOSE k \in 1..Len(l) : l[k] # 0 /\ \A j \in 1..(k - 1) : l[j] = 0
         IN  SubSeq(l, i, Len(l))

IntLimbsMul(l, k) ==
    LET m == LimbsMul(l, k, 0)
    IN  IntLimbsStrip(<<m.carry \div 4096, m.carry % 4096>> \o m.limbs)

IntLimbsLess(a, b) ==
    LET x == IntLimbsStrip(a)
        y == IntLimbsStrip(b)
    IN  \/ Len(x) < Len(y)
        \/ /\ Len(x) = Len(y)
           /\ \E i \in 1..Len(x) : x[i] < y[i] /\ \A j \in 1..(i - 1) : x[j] = y[j]

\* 10^k * 2^e
RECURSIVE TenTwo(_, _)
TenTwo(k, e) ==
    IF k > 0 THEN IntLimbsMul(TenTwo(k - Min(k, 5), e), Pow10(Min(k, 5)))
    ELSE IF e > 0 THEN IntLimbsMul(TenTwo(k, e - Min(e, 12)), Pow2(Min(e, 12)))
    ELSE <<1>>

\* Whether a decimal number at the distance err * 10^-k from the double x
\* (a fraction that is not 0) is read back as x: the distance is less than
\* half the gap 2^-gap to the neighbour of x on that side, or is that half
\* and the last bit of x is 0.
ReadsBack(x, err, k, gap) ==
    LET F == LeadingZeros(x.limbs) + 53
        B == 12 * Len(err)
        lim == TenTwo(k, B - gap - 1)
    IN  \/ IntLimbsLess(err, lim)
        \/ IntLimbsStrip(err) = lim /\ LimbBit(x.limbs, F) = 0

\* The fewest significant digits that are read back as the fraction x, not
\* 0, tried from n digits on; of two such numbers the nearer one.
RECURSIVE Shortest(_, _)
Shortest(x, n) ==
    LET F      == LeadingZeros(x.limbs) + 53
        L      == LimbsPad(x.limbs, (F + 2) \div 12 + 2)
        z      == LeadDecZeros(L)
        d      == DecDigits(L, z + n)
        digs   == SubSeq(d.digs, z + 1, z + n)
        power2 == Cardinality({j \in 1..F : LimbBit(L, j) = 1}) = 1
        downOK == LimbsZero(d.rem)
                    \/ ReadsBack(x, d.rem, z + n, IF power2 THEN F + 1 ELSE F)
        upOK   == ~LimbsZero(d.rem)
                    /\ ReadsBack(x, LimbsComplement(d.rem), z + n, F)
        h      == HalfCmp(d.rem)
        up     == DigInc(digs)
        takeUp == upOK /\ (~downOK \/ h > 0 \/ (h = 0 /\ digs[n] % 2 = 1))
    IN  IF ~downOK /\ ~upOK THEN Shortest(x, n + 1)
        ELSE IF ~takeUp THEN [digs |-> StripZeros(digs), decpt |-> 0 - z]
        ELSE IF Len(up) > n THEN [digs |-> <<1>>, decpt |-> 1 - z]
        ELSE [digs |-> StripZeros(up), decpt |-> 0 - z]

\* The exponent part of a number in scientific notation
ExpPart(e, upper) ==
    <<IF upper THEN "E" ELSE "e", IF e < 0 THEN "-" ELSE "+">>
        \o (IF Abs(e) < 10 THEN <<"0">> ELSE << >>) \o DecStr(Abs(e))

\* Digits with the decimal point at decpt, in scientific notation
FormatExp(digs, decpt, upper) ==
    <<Digits[digs[1] + 1]>>
        \o (IF Len(digs) > 1 THEN <<".">> \o DigitChars(Tail(digs)) ELSE << >>)
        \o ExpPart(decpt - 1, upper)

\* Digits with the decimal point at decpt, in positional notation; dot0 adds
\* '.0' to a whole number
FormatPlain(digs, decpt, dot0) ==
    IF decpt <= 0
    THEN <<"0", ".">> \o Repeat("0", 0 - decpt) \o DigitChars(digs)
    ELSE IF decpt < Len(digs)
    THEN DigitChars(SubSeq(digs, 1, decpt)) \o <<".">>
            \o DigitChars(SubSeq(digs, decpt + 1, Len(digs)))
    ELSE DigitChars(digs) \o Repeat("0", decpt - Len(digs))
            \o (IF dot0 THEN <<".", "0">> ELSE << >>)

\* FormatE, given s
FormatE_s(upper, s) ==
    FormatExp(s.digs, s.decpt, upper)

\* '%e' % x, '%E' % x
FormatE(x, upper) ==
    IF IsZero(x) THEN FormatExp(<<0, 0, 0, 0, 0, 0, 0>>, 1, upper)
    ELSE FormatE_s(upper, SigDec(x, 7))

\* Digits in the notation of the formats 'g' and 'r': scientific when the
\* exponent is below -4 or not below most
FormatShort(s, most, upper, dot0) ==
    IF s.decpt <= -4 \/ s.decpt > most THEN FormatExp(s.digs, s.decpt, upper)
    ELSE FormatPlain(s.digs, s.decpt, dot0)

\* FormatG, given s
FormatG_s(prec, upper, dot0, s) ==
    FormatShort([digs |-> StripZeros(s.digs), decpt |-> s.decpt], prec, upper, dot0)

\* '%.<prec>g' % x
FormatG(x, prec, upper, dot0) ==
    IF IsZero(x) THEN FormatPlain(<<0>>, 1, dot0)
    ELSE FormatG_s(prec, upper, dot0, SigDec(x, prec))

\* str(x) of Python 2: twelve significant digits
PyStrFloat(x) == FormatG(x, 12, FALSE, TRUE)

\* repr(x): the shortest digits that are read back as x
PyReprFloat(x) ==
    IF IsZero(x) THEN <<"0", ".", "0">>
    ELSE IF x.int = 1 THEN <<"1", ".", "0">>
    ELSE FormatShort(Shortest(x, 1), 16, FALSE, TRUE)

-----------------------------------------------------------------------------
(* The calendar: datetime.date, time.gmtime, calendar.timegm *)

IsLeap(y) == (y % 4 = 0 /\ y % 100 # 0) \/ y % 400 = 0

DaysInMonth(y, m) ==
    IF m = 2 THEN (IF IsLeap(y) THEN 29 ELSE 28)
    ELSE IF m \in {4, 6, 9, 11} THEN 30 ELSE 31

\* Days from 1970-01-01 to the civil date y-m-d (proleptic Gregorian).
DaysFromCivil(y, m, d) ==
    LET yy == IF m <= 2 THEN y - 1 ELSE y
        era == yy \div 400
        yoe == yy - era * 400
        mp == IF m > 2 THEN m - 3 ELSE m + 9
        doy == (153 * mp + 2) \div 5 + d - 1
        doe == yoe * 365 + yoe \div 4 - yoe \div 100 + doy
    IN  era * 146097 + doe - 719468

CivilFromDays(z0) ==
    LET z == z0 + 719468
        era == z \div 146097
        doe == z - era * 146097
        yoe == (doe - doe \div 1460 + doe \div 36524 - doe \div 146096) \div 365
        doy == doe - (365 * yoe + yoe \div 4 - yoe \div 100)
        mp == (5 * doy + 2) \div 153
        d == doy - (153 * mp + 2) \div 5 + 1
        m == IF mp < 10 THEN mp + 3 ELSE mp - 9
        y == yoe + era * 400 + (IF m <= 2 THEN 1 ELSE 0)
    IN  [Y |-> y, m |-> m, d |-> d]

\* datetime.date(y, m, d) exists: the year is of 1..9999 and the day of the month
DateValid(y, m, d) ==
    /\ 1 <= y /\ y <= 9999
    /\ 1 <= m /\ m <= 12
    /\ 1 <= d /\ d <= DaysInMonth(y, m)

\* datetime.date(y, m, d).toordinal()
toordinal(y, m, d) == DaysFromCivil(y, m, d) + 719163

\* datetime.date(y, m, d).weekday(): Monday is 0
weekday(y, m, d) == (DaysFromCivil(y, m, d) + 3) % 7

\* The day of the year, from 1
yearday(y, m, d) == DaysFromCivil(y, m, d) - DaysFromCivil(y, 1, 1) + 1

\* gmtime, given c
gmtime_c(ts, c) ==
    LET days == ts \div 86400
        rem == ts % 86400
    IN  [Y |-> c.Y, m |-> c.m, d |-> c.d,
         H |-> rem \div 3600, M |-> (rem % 3600) \div 60, S |-> rem % 60,
         w |-> (days + 3) % 7, j |-> yearday(c.Y, c.m, c.d), dst |-> 0]

\* time.gmtime(ts) for a whole number of seconds ts: the struct_time with
\* the fields Y m d H M S, w (tm_wday), j (tm_yday) and dst (tm_isdst)
gmtime(ts) ==
    LET days == ts \div 86400
        rem == ts % 86400
    IN  gmtime_c(ts, CivilFromDays(days))

\* ((days * 24 + H) * 60 + M) * 60 + S as a Python integer
SecondsOf(days, H, M, S) ==
    BigAdd(BigMulSmall(Big(days), 86400), Big(H * 3600 + M * 60 + S))

\* calendar.timegm(tm): days counted from datetime.date(year, month, 1)
timegm(tm) == SecondsOf(toordinal(tm.Y, tm.m, 1) - 719163 + tm.d - 1, tm.H, tm.M, tm.S)

-----------------------------------------------------------------------------
(* time.strftime: the checks of Python 2.7 and strftime of the C library   *)
(* in the C locale, for a process whose time zone is UTC.                  *)

\* The names of the C locale, the week starting with Sunday
DayNames ==
    <<<<"S", "u", "n", "d", "a", "y">>,
      <<"M", "o", "n", "d", "a", "y">>,
      <<"T", "u", "e", "s", "d", "a", "y">>,
      <<"W", "e", "d", "n", "e", "s", "d", "a", "y">>,
      <<"T", "h", "u", "r", "s", "d", "a", "y">>,
      <<"F", "r", "i", "d", "a", "y">>,
      <<"S", "a", "t", "u", "r", "d", "a", "y">>>>

MonthNames ==
    <<<<"J", "a", "n", "u", "a", "r", "y">>,
      <<"F", "e", "b", "r", "u", "a", "r", "y">>,
      <<"M", "a", "r", "c", "h">>,
      <<"A", "p", "r", "i", "l">>,
      <<"M", "a", "y">>,
      <<"J", "u", "n", "e">>,
      <<"J", "u", "l", "y">>,
      <<"A", "u", "g", "u", "s", "t">>,
      <<"S", "e", "p", "t", "e", "m", "b", "e", "r">>,
      <<"O", "c", "t", "o", "b", "e", "r">>,
      <<"N", "o", "v", "e", "m", "b", "e", "r">>,
      <<"D", "e", "c", "e", "m", "b", "e", "r">>>>

\* tzname[0] and tzname[1] of the process
LocalZone == <<"U", "T", "C">>

StrfFlags == {"_", "-", "0", "^", "#"}

\* The first position from f on that holds no character of the set cs
SkipChars(format, f, cs) ==
    IF \A i \in f..Len(format) : format[i] \in cs THEN Len(format) + 1
    ELSE CHOOSE i \in f..Len(format) :
             format[i] \notin cs /\ \A j \in f..(i - 1) : format[j] \in cs

\* The first position from f on that holds the character c
FindChar(format, f, c) ==
    IF \A i \in f..Len(format) : format[i] # c THEN Len(format) + 1
    ELSE CHOOSE i \in f..Len(format) :
             format[i] = c /\ \A j \in f..(i - 1) : format[j] # c

\* The number a string of digits denotes, or cap if it is more
RECURSIVE CappedVal(_, _)
CappedVal(ds, cap) ==
    IF ds = << >> THEN 0
    ELSE LET v == CappedVal(SubSeq(ds, 1, Len(ds) - 1), cap)
         IN  IF v >= cap THEN cap ELSE Min(10 * v + DigitVal(ds[Len(ds)]), cap)

\* add(): the text, padded on its left to the width
StrfAdd(text, width, pad, cap) ==
    Repeat(IF pad = "0" THEN "0" ELSE " ", Min(width - Len(text), cap)) \o text

\* cpy(): the text in the case asked for, padded
StrfCpy(text, width, pad, low, up, cap) ==
    StrfAdd(IF low THEN PyLower(text) ELSE IF up THEN PyUpper(text) ELSE text,
            width, pad, cap)

\* do_number: the digits ds, with a minus sign when neg, padded to the
\* number of digits the conversion has and to the width
StrfNumber(digits, ds, neg, pad, width, cap) ==
    LET sign == IF neg THEN <<"-">> ELSE << >>
        padding == IF pad = "-" THEN 0 ELSE Max(digits - Len(sign) - Len(ds), 0)
    IN  IF pad = "_"
        THEN Repeat(" ", padding)
                \o StrfAdd(sign \o ds, IF width > padding THEN width - padding ELSE 0,
                           pad, cap)
        ELSE StrfAdd(sign \o Repeat("0", padding) \o ds, width, pad, cap)

\* iso_week_days(): the days since the Monday of ISO week 1
iso_week_days(yday, wday) == (yday - ((yday - wday + 4 + 378) % 7)) + 3

\* The year and the days of the ISO week the day belongs to
IsoWeek(year, yday, wday) ==
    LET days == iso_week_days(yday, wday)
        prev == iso_week_days(yday + 365 + (IF IsLeap(year - 1) THEN 1 ELSE 0), wday)
        next == iso_week_days(yday - 365 - (IF IsLeap(year) THEN 1 ELSE 0), wday)
    IN  IF days < 0 THEN [year |-> year - 1, days |-> prev]
        ELSE IF next >= 0 THEN [year |-> year + 1, days |-> next]
        ELSE [year |-> year, days |-> days]

\* mktime(tm) for the time zone UTC
mktime(tm) ==
    LET t ==
            SecondsOf(DaysFromCivil(tm.tm_year + 1900, tm.tm_mon + 1, 1) + tm.tm_mday - 1,
                      tm.tm_hour, tm.tm_min, tm.tm_sec)
    IN  IF tm.tm_isdst > 0 THEN BigAdd(t, Big(-3600)) ELSE t

StrfSubformats ==
    [c |-> <<"%", "a", " ", "%", "b", " ", "%", "e", " ", "%", "H", ":", "%", "M", ":", "%", "S", " ", "%", "Y">>,
     x |-> <<"%", "m", "/", "%", "d", "/", "%", "y">>,
     D |-> <<"%", "m", "/", "%", "d", "/", "%", "y">>,
     F |-> <<"%", "Y", "-", "%", "m", "-", "%", "d">>,
     R |-> <<"%", "H", ":", "%", "M">>,
     r |-> <<"%", "I", ":", "%", "M", ":", "%", "S", " ", "%", "p">>,
     X |-> <<"%", "H", ":", "%", "M", ":", "%", "S">>,
     T |-> <<"%", "H", ":", "%", "M", ":", "%", "S">>]

\* The conversions that refuse the modifier E, the modifier O, or both
StrfNoE == {"%", "a", "A", "b", "h", "B", "D", "d", "e", "F", "H", "I", "k", "l",
            "j", "M", "m", "S", "U", "V", "g", "G", "W", "w"}
StrfNoO == {"%", "a", "A", "c", "x", "D", "F", "X", "Y"}

RECURSIVE StrfFrom(_, _, _, _)

\* The flags that choose the padding
IsPadFlag(c) == c \in {"_", "-", "0"}

\* StrfItem, given ch
StrfItem_ch(format, f, tm, cap, ch) ==
    LET p1 == SkipChars(format, f + 1, StrfFlags)
        flags == SubSeq(format, f + 1, p1 - 1)
        pads == SelectSeq(flags, IsPadFlag)
        pad == IF pads = << >> THEN "" ELSE pads[Len(pads)]
        up0 == \E i \in 1..Len(flags) : flags[i] = "^"
        change == \E i \in 1..Len(flags) : flags[i] = "#"
        p2 == SkipChars(format, p1, {Digits[i] : i \in 1..10})
        width == IF p2 = p1 THEN -1 ELSE CappedVal(SubSeq(format, p1, p2 - 1), cap)
        hasmod == p2 <= Len(format) /\ format[p2] \in {"E", "O"}
        mod == IF hasmod THEN format[p2] ELSE ""
        p3 == IF hasmod THEN p2 + 1 ELSE p2
        atend == p3 > Len(format)
    IN  LET year == tm.tm_year + 1900
            hour12 == IF tm.tm_hour % 12 = 0 THEN 12 ELSE tm.tm_hour % 12
            iso == IsoWeek(year, tm.tm_yday, tm.tm_wday)
            epoch == mktime(tm)
            npad == IF pad = "" THEN "0" ELSE pad
            spad == IF pad \in {"0", "-"} THEN pad ELSE "_"
            num(digits, v) == StrfNumber(digits, DecStr(v), FALSE, npad, width, cap)
            numsp(digits, v) == StrfNumber(digits, DecStr(v), FALSE, spad, width, cap)
            name(text) == StrfCpy(text, width, pad, FALSE, up0 \/ change, cap)
            lowname(text, l) == StrfCpy(text, width, pad, l, up0, cap)
            sub(subfmt) ==
                LET s == StrfFrom(subfmt, 1, tm, cap)
                IN  StrfAdd(IF up0 THEN PyUpper(s) ELSE s, width, pad, cap)
            last == IF atend THEN Len(format) ELSE p3
            bad ==
                StrfCpy(SubSeq(format, IF ch = "%" THEN p3 ELSE f, last),
                        width, pad, FALSE, up0, cap)
            ampm == IF tm.tm_hour < 12 THEN <<"A", "M">> ELSE <<"P", "M">>
            text ==
                IF atend THEN bad
                ELSE IF (mod = "E" /\ ch \in StrfNoE) \/ (mod = "O" /\ ch \in StrfNoO) THEN bad
                ELSE CASE ch = "%" -> StrfAdd(<<"%">>, width, pad, cap)
                       [] ch = "a" -> name(SubSeq(DayNames[tm.tm_wday + 1], 1, 3))
                       [] ch = "A" -> name(DayNames[tm.tm_wday + 1])
                       [] ch \in {"b", "h"} -> name(SubSeq(MonthNames[tm.tm_mon + 1], 1, 3))
                       [] ch = "B" -> name(MonthNames[tm.tm_mon + 1])
                       [] ch \in DOMAIN StrfSubformats -> sub(StrfSubformats[ch])
                       [] ch = "C" -> num(2, year \div 100)
                       [] ch = "d" -> num(2, tm.tm_mday)
                       [] ch = "e" -> numsp(2, tm.tm_mday)
                       [] ch = "H" -> num(2, tm.tm_hour)
                       [] ch = "I" -> num(2, hour12)
                       [] ch = "k" -> numsp(2, tm.tm_hour)
                       [] ch = "l" -> numsp(2, hour12)
                       [] ch = "j" -> num(3, 1 + tm.tm_yday)
                       [] ch = "M" -> num(2, tm.tm_min)
                       [] ch = "m" -> num(2, tm.tm_mon + 1)
                       [] ch = "n" -> StrfAdd(<<"\n">>, width, pad, cap)
                       [] ch = "t" -> StrfAdd(<<"\t">>, width, pad, cap)
                       [] ch = "P" -> lowname(ampm, TRUE)
                       [] ch = "p" -> lowname(ampm, change)
                       [] ch = "S" -> num(2, tm.tm_sec)
                       [] ch = "s" -> StrfNumber(1, DigitChars(epoch.mag \o
                                                     (IF epoch.mag = << >> THEN <<0>> ELSE << >>)),
                                                 epoch.neg, pad, width, cap)
                       [] ch = "u" -> num(1, ((tm.tm_wday + 6) % 7) + 1)
                       [] ch = "U" -> num(2, ((tm.tm_yday - tm.tm_wday) + 7) \div 7)
                       [] ch = "V" -> num(2, (iso.days \div 7) + 1)
                       [] ch = "g" -> num(2, iso.year % 100)
                       [] ch = "G" -> num(1, iso.year)
                       [] ch = "W" -> num(2, ((tm.tm_yday - ((tm.tm_wday + 6) % 7)) + 7) \div 7)
                       [] ch = "w" -> num(1, tm.tm_wday)
                       [] ch = "Y" -> num(1, year)
                       [] ch = "y" -> num(2, year % 100)
                       [] ch = "Z" -> lowname(IF tm.tm_isdst < 0 THEN << >> ELSE LocalZone, change)
                       [] ch = "z" -> IF tm.tm_isdst < 0 THEN << >>
                                      ELSE StrfAdd(<<"+">>, width, pad, cap) \o num(4, 0)
                       [] OTHER -> bad
        IN  [text |-> text, next |-> last + 1]

\* One conversion specification, which starts at position f of the format:
\* the text it makes and the position after it
StrfItem(format, f, tm, cap) ==
    LET p1 == SkipChars(format, f + 1, StrfFlags)
        flags == SubSeq(format, f + 1, p1 - 1)
        pads == SelectSeq(flags, IsPadFlag)
        pad == IF pads = << >> THEN "" ELSE pads[Len(pads)]
        up0 == \E i \in 1..Len(flags) : flags[i] = "^"
        change == \E i \in 1..Len(flags) : flags[i] = "#"
        p2 == SkipChars(format, p1, {Digits[i] : i \in 1..10})
        width == IF p2 = p1 THEN -1 ELSE CappedVal(SubSeq(format, p1, p2 - 1), cap)
        hasmod == p2 <= Len(format) /\ format[p2] \in {"E", "O"}
        mod == IF hasmod THEN format[p2] ELSE ""
        p3 == IF hasmod THEN p2 + 1 ELSE p2
        atend == p3 > Len(format)
    IN  StrfItem_ch(format, f, tm, cap, IF atend THEN "" ELSE format[p3])

\* The text strftime() makes of the format from position f on, however long
StrfFrom(format, f, tm, cap) ==
    IF f > Len(format) THEN << >>
    ELSE IF format[f] # "%"
    THEN LET e == FindChar(format, f, "%")
         IN  SubSeq(format, f, e - 1) \o StrfFrom(format, e, tm, cap)
    ELSE LET it == StrfItem(format, f, tm, cap)
         IN  it.text \o StrfFrom(format, it.next, tm, cap)

\* The size of the last buffer time.strftime tries: 1024 doubled until it
\* is 256 times the length of the format
RECURSIVE StrfBuffer(_, _)
StrfBuffer(i, fmtlen) == IF i >= 256 * fmtlen THEN i ELSE StrfBuffer(i + i, fmtlen)

\* The struct tm that gettmarg() and the checks of time.strftime make of a
\* struct_time; the name of the field that is out of range in bad
StrfArg(t) ==
    LET y ==
            IF t.Y >= 1900 THEN t.Y
            ELSE IF 69 <= t.Y /\ t.Y <= 99 THEN t.Y + 1900
            ELSE t.Y + 2000
        wday == (t.w + 1) % 7
        bad ==
            IF t.Y < 0 \/ (t.Y > 99 /\ t.Y < 1900) THEN "year"
            ELSE IF t.m < 0 \/ t.m > 12 THEN "month"
            ELSE IF t.d < 0 \/ t.d > 31 THEN "day of month"
            ELSE IF t.H < 0 \/ t.H > 23 THEN "hour"
            ELSE IF t.M < 0 \/ t.M > 59 THEN "minute"
            ELSE IF t.S < 0 \/ t.S > 61 THEN "seconds"
            ELSE IF t.w + 1 < 0 /\ wday # 0 THEN "day of week"
            ELSE IF t.j < 0 \/ t.j > 366 THEN "day of year"
            ELSE ""
    IN  [bad |-> bad,
         tm  |-> [tm_year |-> y - 1900,
                  tm_mon  |-> IF t.m = 0 THEN 0 ELSE t.m - 1,
                  tm_mday |-> IF t.d = 0 THEN 1 ELSE t.d,
                  tm_hour |-> t.H, tm_min |-> t.M, tm_sec |-> t.S,
                  tm_wday |-> wday,
                  tm_yday |-> IF t.j = 0 THEN 0 ELSE t.j - 1,
                  tm_isdst |-> IF t.dst < -1 THEN -1 ELSE IF t.dst > 1 THEN 1 ELSE t.dst]]

\* strftime, given s
strftime_s(format, t, s) ==
    LET a == StrfArg(t)
        cap == StrfBuffer(1024, Len(format))
    IN  IF a.bad # "" THEN [status |-> "ValueError", str |-> << >>]
        ELSE [status |-> "ok", str |-> IF Len(s) < cap THEN s ELSE << >>]

\* time.strftime(format, t): a year before 1900 is refused unless it has two
\* digits; the text is empty when it does not fit the last buffer tried.
strftime(format, t) ==
    LET a == StrfArg(t)
        cap == StrfBuffer(1024, Len(format))
    IN  strftime_s(format, t, StrfFrom(format, 1, a.tm, cap))

-----------------------------------------------------------------------------
(* time_to_str *)

\* GlobalVars.re_frac.search(format) for re_frac = re.compile(r'%.\df'): the
\* place (from 1) of the first '%', any character but a newline, a digit
\* and 'f' in the format; 0 when there is none
re_frac_hit(format, i) ==
    /\ i + 3 <= Len(format)
    /\ format[i] = "%"
    /\ format[i + 1] # "\n"
    /\ IsDigit(format[i + 2])
    /\ format[i + 3] = "f"

re_frac_search(format) ==
    IF \E i \in 1..Len(format) : re_frac_hit(format, i)
    THEN CHOOSE i \in 1..Len(format) :
             re_frac_hit(format, i) /\ \A j \in 1..(i - 1) : ~re_frac_hit(format, j)
    ELSE 0

\* The flags of a conversion specification of the % operator
PercentFlags == {"-", "+", " ", "#", "0"}

\* What the % operator makes of a sign, a number's text and a width: the
\* sign comes before a fill of zeros and after a fill of spaces; the text
\* is justified to the left when ljust
PercentPad(sign, text, width0, zero, ljust) ==
    LET len == Len(text)
        width1 == Max(width0, len)
        width == IF sign # << >> /\ width1 > len THEN width1 - 1 ELSE width1
        fill == IF zero THEN "0" ELSE " "
        left == IF ljust THEN << >> ELSE Repeat(fill, width - len)
        right == IF ljust THEN Repeat(" ", width - len) ELSE << >>
    IN  IF zero THEN sign \o left \o text \o right
        ELSE left \o sign \o text \o right

\* group % x for the four characters '%', c, d, 'f' that re_frac matched
\* and a double x in [0, 1], as the % operator of Python 2.7 strings does
\* it: c may be a flag, the first digit of a width, the dot of a
\* precision, a length modifier, or a conversion of its own, after which
\* the digit and the 'f' are copied
PercentFormat(group, x) ==
    LET c == group[2]
        d == group[3]
        rest == <<d, "f">>
        flags == {c} \cup (IF d = "0" THEN {"0"} ELSE { })
        sign ==
            IF "+" \in flags THEN <<"+">>
            ELSE IF " " \in flags THEN <<" ">> ELSE << >>
        ok(text) == [status |-> "ok", str |-> text]
        err(e) == [status |-> e, str |-> << >>]
    IN  CASE c = "(" -> err("TypeError")
          [] c = "*" -> err("TypeError")
          [] c = "%" -> err("TypeError")
          [] c = "c" -> err("TypeError")
          [] c \in PercentFlags ->
                ok(PercentPad(sign, FormatF(x, 6), IF d = "0" THEN -1 ELSE DigitVal(d),
                              "0" \in flags, "-" \in flags))
          [] IsDigit(c) /\ c # "0" ->
                ok(PercentPad(<< >>, FormatF(x, 6), 10 * DigitVal(c) + DigitVal(d),
                              FALSE, FALSE))
          [] c = "." -> ok(FormatF(x, DigitVal(d)))
          [] c \in {"h", "l", "L"} -> err("ValueError")
          [] c = "s" -> ok(PyStrFloat(x) \o rest)
          [] c = "r" -> ok(PyReprFloat(x) \o rest)
          [] c \in {"d", "i", "u", "o", "x", "X"} -> ok(DecStr(x.int) \o rest)
          [] c \in {"e", "E"} -> ok(FormatE(x, c = "E") \o rest)
          [] c \in {"f", "F"} -> ok(FormatF(x, 6) \o rest)
          [] c \in {"g", "G"} -> ok(FormatG(x, 6, c = "G", FALSE) \o rest)
          [] OTHER -> err("ValueError")

\* time_to_str, given sub
time_to_str_sub(t, format, sub) ==
    LET ts == math_floor(t)
        m == re_frac_search(format)
    IN  LET fmt ==
                SubSeq(format, 1, m - 1) \o PyFrom(sub.str, 2)
                    \o SubSeq(format, m + 4, Len(format))
        IN  IF m = 0 THEN strftime(format, gmtime(ts))
            ELSE IF sub.status # "ok" THEN sub
            ELSE strftime(fmt, gmtime(ts))

\* time_to_str(t, format): the text, or the exception raised
time_to_str(t, format) ==
    LET ts == math_floor(t)
        tfrac == Tfrac(t)
        m == re_frac_search(format)
    IN  time_to_str_sub(t, format, PercentFormat(SubSeq(format, m, m + 3), tfrac))

-----------------------------------------------------------------------------
(* time.strptime of Python 2.7 (_strptime.py) in the C locale, time zone UTC *)

DigitSet == {Digits[i] : i \in 1..10}

\* The characters of the class [a-b] of digits
DigitRange(a, b) == {Digits[i] : i \in (a + 1)..(b + 1)}

\* A text as the regular expression that matches it whatever the case of
\* its letters (re.IGNORECASE)
Word(s) == [i \in 1..Len(s) |-> {Lower(s[i]), Upper(s[i])}]

\* __seqToRE: the names, the longest first
Words(names) == [i \in 1..Len(names) |-> Word(names[i])]

\* locale_time.f_weekday[i], f_month[i], a_weekday[i] and a_month[i] (the week
\* starts with Monday)
f_weekday(i) == PyLower(DayNames[((i + 1) % 7) + 1])
f_month(i) == PyLower(MonthNames[i])
a_weekday(i) == SubSeq(f_weekday(i), 1, 3)
a_month(i) == SubSeq(f_month(i), 1, 3)

\* The regular expression of each directive: its alternatives in the order
\* they are tried, each a sequence of sets of characters
StrpDirectives ==
    [d |-> <<<<{"3"}, DigitRange(0, 1)>>, <<DigitRange(1, 2), DigitSet>>,
             <<{"0"}, DigitRange(1, 9)>>, <<DigitRange(1, 9)>>,
             <<{" "}, DigitRange(1, 9)>>>>,
     f |-> [k \in 1..6 |-> Repeat(DigitSet, 7 - k)],
     H |-> <<<<{"2"}, DigitRange(0, 3)>>, <<DigitRange(0, 1), DigitSet>>, <<DigitSet>>>>,
     I |-> <<<<{"1"}, DigitRange(0, 2)>>, <<{"0"}, DigitRange(1, 9)>>, <<DigitRange(1, 9)>>>>,
     j |-> <<<<{"3"}, {"6"}, DigitRange(0, 6)>>, <<{"3"}, DigitRange(0, 5), DigitSet>>,
             <<DigitRange(1, 2), DigitSet, DigitSet>>, <<{"0"}, DigitRange(1, 9), DigitSet>>,
             <<{"0"}, {"0"}, DigitRange(1, 9)>>, <<DigitRange(1, 9), DigitSet>>,
             <<{"0"}, DigitRange(1, 9)>>, <<DigitRange(1, 9)>>>>,
     m |-> <<<<{"1"}, DigitRange(0, 2)>>, <<{"0"}, DigitRange(1, 9)>>, <<DigitRange(1, 9)>>>>,
     M |-> <<<<DigitRange(0, 5), DigitSet>>, <<DigitSet>>>>,
     S |-> <<<<{"6"}, DigitRange(0, 1)>>, <<DigitRange(0, 5), DigitSet>>, <<DigitSet>>>>,
     U |-> <<<<{"5"}, DigitRange(0, 3)>>, <<DigitRange(0, 4), DigitSet>>, <<DigitSet>>>>,
     W |-> <<<<{"5"}, DigitRange(0, 3)>>, <<DigitRange(0, 4), DigitSet>>, <<DigitSet>>>>,
     w |-> <<<<DigitRange(0, 6)>>>>,
     y |-> <<<<DigitSet, DigitSet>>>>,
     Y |-> <<<<DigitSet, DigitSet, DigitSet, DigitSet>>>>,
     A |-> Words(<<f_weekday(2), f_weekday(3), f_weekday(5), f_weekday(1),
                   f_weekday(0), f_weekday(4), f_weekday(6)>>),
     a |-> Words([i \in 1..7 |-> SubSeq(f_weekday(i - 1), 1, 3)]),
     B |-> Words(<<f_month(9), f_month(2), f_month(11), f_month(12), f_month(1),
                   f_month(10), f_month(8), f_month(3), f_month(4), f_month(6),
                   f_month(7), f_month(5)>>),
     b |-> Words([i \in 1..12 |-> SubSeq(f_month(i), 1, 3)]),
     p |-> Words(<<<<"a", "m">>, <<"p", "m">>>>),
     Z |-> Words(<<<<"u", "t", "c">>, <<"g", "m", "t">>>>)]

\* LC_date_time, LC_date and LC_time, which %c, %x and %X stand for
StrpCompound ==
    [c |-> <<"%", "a", " ", "%", "b", " ", "%", "d", " ", "%", "H", ":", "%", "M", ":",
             "%", "S", " ", "%", "Y">>,
     x |-> <<"%", "m", "/", "%", "d", "/", "%", "y">>,
     X |-> <<"%", "H", ":", "%", "M", ":", "%", "S">>]

\* The end of the run of characters from position i on that satisfy P
RunEnd(s, i, P(_)) ==
    IF \A k \in i..Len(s) : P(s[k]) THEN Len(s) + 1
    ELSE CHOOSE k \in i..Len(s) : ~P(s[k]) /\ \A n \in i..(k - 1) : P(s[n])

\* A character of the format that stands for itself
IsLiteral(ch) == ch # "%" /\ ~IsSpace(ch)

\* TimeRE.pattern(format) from position i on: the regular expression as a
\* sequence of tokens, a token being a literal text, a run of whitespace
\* (\s+) or the group of a directive.  A '%' before a character that is no
\* directive (KeyError) or at the end (IndexError) makes the ValueError of
\* _strptime.
RECURSIVE pattern(_, _)
pattern(format, i) ==
    LET c    == format[i + 1]
        rest(k, toks) ==
            LET r == pattern(format, k)
            IN  IF r.status = "ok" THEN [status |-> "ok", tokens |-> toks \o r.tokens]
                ELSE r
        lit(t) == [kind |-> "lit", name |-> "", alts |-> <<Word(t)>>]
        e    == RunEnd(format, i, IsLiteral)
    IN  IF i > Len(format) THEN [status |-> "ok", tokens |-> << >>]
        ELSE IF format[i] = "%"
        THEN IF i = Len(format) THEN [status |-> "ValueError", tokens |-> << >>]
             ELSE IF c = "%" THEN rest(i + 2, <<lit(<<"%">>)>>)
             ELSE IF c \in DOMAIN StrpDirectives
             THEN rest(i + 2, <<[kind |-> "dir", name |-> c, alts |-> StrpDirectives[c]]>>)
             ELSE IF c \in DOMAIN StrpCompound
             THEN rest(i + 2, pattern(StrpCompound[c], 1).tokens)
             ELSE [status |-> "ValueError", tokens |-> << >>]
        ELSE IF IsSpace(format[i])
        THEN rest(RunEnd(format, i, IsSpace), <<[kind |-> "ws", name |-> "", alts |-> << >>]>>)
        ELSE rest(e, <<lit(SubSeq(format, i, e - 1))>>)

\* A token that is the group of a directive
IsDirective(t) == t.kind = "dir"

\* The names of the groups of a regular expression, in its order
GroupNames(tokens) ==
    LET dirs == SelectSeq(tokens, IsDirective)
    IN  [i \in 1..Len(dirs) |-> dirs[i].name]

NoMatch == [ok |-> FALSE, end |-> 0, groups |-> << >>]

\* format_regex.match(data): the tokens from the k-th on matched against
\* the data from position pos on, the alternatives of a token tried in
\* their order and a run of whitespace the longest first; the first match
\* found is the result, whether or not it reaches the end of the data
RECURSIVE ReMatch(_, _, _, _)
ReMatch(tokens, k, data, pos) ==
    LET tok  == tokens[k]
        run  == RunEnd(data, pos, IsSpace) - pos
        alts == IF tok.kind = "ws" THEN [i \in 1..run |-> Repeat(Whitespace, run + 1 - i)]
                ELSE tok.alts
        fits(a) == /\ pos + Len(a) - 1 <= Len(data)
                   /\ \A i \in 1..Len(a) : data[pos + i - 1] \in a[i]
        rs   == [i \in 1..Len(alts) |->
                    IF fits(alts[i]) THEN ReMatch(tokens, k + 1, data, pos + Len(alts[i]))
                    ELSE NoMatch] \o << >>
        hit  == CHOOSE i \in 1..Len(alts) : rs[i].ok /\ \A n \in 1..(i - 1) : ~rs[n].ok
        grp  == IF tok.kind = "dir"
                THEN <<[name |-> tok.name,
                        text |-> SubSeq(data, pos, pos + Len(alts[hit]) - 1)]>>
                ELSE << >>
    IN  IF k > Len(tokens) THEN [ok |-> TRUE, end |-> pos, groups |-> << >>]
        ELSE IF \A i \in 1..Len(alts) : ~rs[i].ok THEN NoMatch
        ELSE [ok |-> TRUE, end |-> rs[hit].end, groups |-> grp \o rs[hit].groups]

\* hash(name) of CPython 2.7 on a 64-bit machine for the names of the
\* groups, in base 32 from the least significant digit
StrHash ==
    [a |-> <<0, 15, 12, 27, 0, 18, 11>>,
     A |-> <<0, 14, 0, 19, 30, 23, 7>>,
     b |-> <<3, 27, 20, 29, 26, 21, 11>>,
     B |-> <<3, 26, 8, 21, 24, 27, 7>>,
     d |-> <<5, 19, 5, 2, 15, 29, 11>>,
     f |-> <<7, 11, 22, 6, 3, 5, 12>>,
     H |-> <<9, 2, 27, 2, 21, 18, 8>>,
     I |-> <<8, 14, 3, 5, 15, 22, 8>>,
     j |-> <<11, 27, 23, 15, 11, 20, 12>>,
     m |-> <<12, 31, 16, 22, 25, 31, 12>>,
     M |-> <<12, 30, 4, 14, 23, 5, 9>>,
     p |-> <<17, 3, 10, 29, 7, 11, 13>>,
     S |-> <<18, 6, 23, 27, 19, 28, 9>>,
     U |-> <<20, 30, 7, 0, 8, 4, 10>>,
     w |-> <<22, 23, 4, 13, 30, 5, 14>>,
     W |-> <<22, 22, 24, 4, 28, 11, 10>>,
     y |-> <<24, 15, 21, 17, 18, 13, 14>>,
     Y |-> <<24, 14, 9, 9, 16, 19, 10>>,
     Z |-> <<27, 26, 17, 11, 10, 23, 10>>]

\* The slot of a dict of CPython 2.7 where a new key goes: the hash picks
\* the first slot and, as long as the slot is taken, i = 5*i + perturb + 1
\* the next, perturb being the hash shifted right by 5 bits for each probe
\* made.  i is kept modulo 32; a table of these names has 8 or 32 slots.
RECURSIVE DictProbe(_, _, _, _)
DictProbe(slots, h, i, n) ==
    IF slots[(i % Len(slots)) + 1] = "" THEN (i % Len(slots)) + 1
    ELSE DictProbe(slots, h, (5 * i + (IF n + 1 <= Len(h) THEN h[n + 1] ELSE 0) + 1) % 32,
                   n + 1)

DictPut(slots, key) ==
    [slots EXCEPT ![DictProbe(slots, StrHash[key], StrHash[key][1], 0)] = key]

\* The keys of a dict in the order iteration gives them: the order of the slots
IsKey(key) == key # ""

DictKeys(slots) == SelectSeq(slots, IsKey)

RECURSIVE DictPutAll(_, _)
\* PyDict_SetItem for a new key: when two thirds of the slots are taken
\* the table is rebuilt with the first power of two of slots above 4 times
\* the number of keys, the keys put in the order of the old slots
DictSetItem(slots, key) ==
    LET put == DictPut(slots, key)
        used == Len(DictKeys(put))
    IN  IF used * 3 >= Len(put) * 2
        THEN DictPutAll(Repeat("", IF 4 * used < 8 THEN 8 ELSE IF 4 * used < 16 THEN 16
                                   ELSE IF 4 * used < 32 THEN 32 ELSE 64), DictKeys(put))
        ELSE put

DictPutAll(slots, keys) ==
    IF keys = << >> THEN slots
    ELSE DictPutAll(DictPut(slots, keys[1]), Tail(keys))

RECURSIVE DictOf(_)
\* The dict made by setting the keys one after the other
DictOf(keys) ==
    IF keys = << >> THEN Repeat("", 8)
    ELSE DictSetItem(DictOf(SubSeq(keys, 1, Len(keys) - 1)), keys[Len(keys)])

\* found.groupdict().iterkeys(): the pattern's groupindex is a dict filled
\* in the order of the groups, and groupdict() fills its dict in the order
\* of the keys of groupindex
groupdict_keys(names) == DictKeys(DictOf(DictKeys(DictOf(names))))

\* found_dict[name]
GroupText(groups, name) ==
    groups[CHOOSE i \in 1..Len(groups) : groups[i].name = name].text

HasGroup(groups, name) == \E i \in 1..Len(groups) : groups[i].name = name

\* int(text) of the digits a group matched (%d may match a leading blank)
GroupInt(text) == DigitsVal(SelectSeq(text, IsDigit))

\* names.index(text.lower()) for the names name(lo), ..., name(hi)
NameIndex(name(_), lo, hi, text) == CHOOSE i \in lo..hi : name(i) = PyLower(text)

\* The value None of weekday and julian
None == -1

\* The locals of _strptime before the groups are looked at
StrpLocals ==
    [year |-> None, hasyear |-> FALSE, month |-> 1, day |-> 1, hour |-> 0, minute |-> 0,
     second |-> 0, fraction |-> 0, tz |-> -1, week_of_year |-> -1,
     week_of_year_start |-> -1, weekday |-> None, julian |-> None]

\* One turn of the loop over found_dict.iterkeys()
StrpGroup(st, key, groups) ==
    LET text == GroupText(groups, key)
        n == GroupInt(text)
        ampm == IF HasGroup(groups, "p") THEN PyLower(GroupText(groups, "p")) ELSE << >>
    IN  CASE key = "y" -> [st EXCEPT !.year = IF n <= 68 THEN n + 2000 ELSE n + 1900,
                                     !.hasyear = TRUE]
          [] key = "Y" -> [st EXCEPT !.year = n, !.hasyear = TRUE]
          [] key = "m" -> [st EXCEPT !.month = n]
          [] key = "B" -> [st EXCEPT !.month = NameIndex(f_month, 1, 12, text)]
          [] key = "b" -> [st EXCEPT !.month =
                              NameIndex(a_month, 1, 12, text)]
          [] key = "d" -> [st EXCEPT !.day = n]
          [] key = "H" -> [st EXCEPT !.hour = n]
          [] key = "I" -> [st EXCEPT !.hour =
                              IF ampm \in {<< >>, <<"a", "m">>}
                              THEN (IF n = 12 THEN 0 ELSE n)
                              ELSE (IF n # 12 THEN n + 12 ELSE n)]
          [] key = "M" -> [st EXCEPT !.minute = n]
          [] key = "S" -> [st EXCEPT !.second = n]
          [] key = "f" -> [st EXCEPT !.fraction = DigitsVal(text \o Repeat("0", 6 - Len(text)))]
          [] key = "A" -> [st EXCEPT !.weekday = NameIndex(f_weekday, 0, 6, text)]
          [] key = "a" -> [st EXCEPT !.weekday =
                              NameIndex(a_weekday, 0, 6, text)]
          [] key = "w" -> [st EXCEPT !.weekday = IF n = 0 THEN 6 ELSE n - 1]
          [] key = "j" -> [st EXCEPT !.julian = n]
          [] key = "U" -> [st EXCEPT !.week_of_year = n, !.week_of_year_start = 6]
          [] key = "W" -> [st EXCEPT !.week_of_year = n, !.week_of_year_start = 0]
          [] key = "Z" -> [st EXCEPT !.tz = 0]
          [] OTHER -> st

RECURSIVE StrpGroups(_, _, _)
StrpGroups(st, keys, groups) ==
    IF keys = << >> THEN st
    ELSE StrpGroups(StrpGroup(st, keys[1], groups), Tail(keys), groups)

\* _calc_julian_from_U_or_W for a year of 1..9999
calc_julian_from_U_or_W(year, week_of_year, day_of_week0, week_starts_Mon) ==
    LET first0 == weekday(year, 1, 1)
        first_weekday == IF week_starts_Mon THEN first0 ELSE (first0 + 1) % 7
        day_of_week == IF week_starts_Mon THEN day_of_week0 ELSE (day_of_week0 + 1) % 7
        week_0_length == (7 - first_weekday) % 7
    IN  IF week_of_year = 0 THEN (1 + day_of_week) - first_weekday
        ELSE 1 + week_0_length + 7 * (week_of_year - 1) + day_of_week

\* date.max.toordinal()
MaxOrdinal == toordinal(9999, 12, 31)

\* StrpFinish, given date
StrpFinish_date(st, julian1, date) ==
    LET fix == ~st.hasyear /\ st.month = 2 /\ st.day = 29
        year0 == IF st.hasyear THEN st.year ELSE IF fix THEN 1904 ELSE 1900
        useweek == st.julian = None /\ st.week_of_year # -1 /\ st.weekday # None
        j0 ==
            calc_julian_from_U_or_W(year0, st.week_of_year, st.weekday,
                                    st.week_of_year_start = 0)
        back == useweek /\ j0 <= 0
        year1 == IF back THEN year0 - 1 ELSE year0
        ord == (julian1 - 1) + toordinal(year1, 1, 1)
    IN  LET julian == IF julian1 = None THEN yearday(year1, st.month, st.day) ELSE julian1
            wday == IF st.weekday = None THEN weekday(date.Y, date.m, date.d) ELSE st.weekday
            valid ==
                /\ 1 <= year0 /\ year0 <= 9999
                /\ 1 <= year1
                /\ IF julian1 = None THEN DateValid(year1, st.month, st.day)
                   ELSE 1 <= ord /\ ord <= MaxOrdinal
        IN  IF ~valid THEN [status |-> "ValueError"]
            ELSE [status |-> "ok",
                  tm |-> [Y |-> IF fix THEN 1900 ELSE date.Y, m |-> date.m, d |-> date.d,
                          H |-> st.hour, M |-> st.minute, S |-> st.second,
                          w |-> wday, j |-> julian, dst |-> st.tz],
                  fraction |-> st.fraction]

\* StrpFinish, given julian1
StrpFinish_julian1(st, julian1) ==
    LET fix == ~st.hasyear /\ st.month = 2 /\ st.day = 29
        year0 == IF st.hasyear THEN st.year ELSE IF fix THEN 1904 ELSE 1900
        useweek == st.julian = None /\ st.week_of_year # -1 /\ st.weekday # None
        j0 ==
            calc_julian_from_U_or_W(year0, st.week_of_year, st.weekday,
                                    st.week_of_year_start = 0)
        back == useweek /\ j0 <= 0
        year1 == IF back THEN year0 - 1 ELSE year0
    IN  LET ord == (julian1 - 1) + toordinal(year1, 1, 1)
        IN  StrpFinish_date(st, julian1,
                IF julian1 = None THEN [Y |-> year1, m |-> st.month, d |-> st.day]
                ELSE CivilFromDays(ord - 719163))

\* What _strptime does once the groups are read: the year when none was
\* given, the day of the year from the week and the weekday or from the
\* date, the date from the day of the year, the weekday from the date
StrpFinish(st) ==
    LET fix == ~st.hasyear /\ st.month = 2 /\ st.day = 29
        year0 == IF st.hasyear THEN st.year ELSE IF fix THEN 1904 ELSE 1900
        useweek == st.julian = None /\ st.week_of_year # -1 /\ st.weekday # None
        j0 ==
            calc_julian_from_U_or_W(year0, st.week_of_year, st.weekday,
                                    st.week_of_year_start = 0)
        back == useweek /\ j0 <= 0
        year1 == IF back THEN year0 - 1 ELSE year0
    IN  StrpFinish_julian1(st,
            IF ~useweek THEN st.julian
            ELSE IF back THEN j0 + (IF IsLeap(year1) THEN 366 ELSE 365)
            ELSE j0)

\* strptime, given found
strptime_found(data_string, pat, found) ==
    LET names == GroupNames(pat.tokens)
    IN  IF pat.status # "ok" THEN [status |-> "ValueError"]
        ELSE IF \E i, k \in 1..Len(names) : i # k /\ names[i] = names[k]
        THEN [status |-> "error"]
        ELSE IF ~found.ok THEN [status |-> "ValueError"]
        ELSE IF Len(data_string) # found.end - 1 THEN [status |-> "ValueError"]
        ELSE StrpFinish(StrpGroups(StrpLocals, groupdict_keys(names), found.groups))

\* strptime, given pat
strptime_pat(data_string, pat) ==
    LET names == GroupNames(pat.tokens)
    IN  strptime_found(data_string, pat, ReMatch(pat.tokens, 1, data_string, 1))

\* time.strptime(data_string, format): the struct_time, or the exception:
\* ValueError for a bad format, for data the format does not match to
\* their end and for a date that does not exist; the error of re for a
\* directive that names a group a second time
strptime(data_string, format) ==
    strptime_pat(data_string, pattern(format, 1))

-----------------------------------------------------------------------------
(* int() and float() of Python 2.7 on a text *)

BigLess(a, b) ==
    IF a.neg # b.neg THEN a.neg
    ELSE IF a.neg THEN MagLess(b.mag, a.mag) ELSE MagLess(a.mag, b.mag)

\* int(x), base 10: whitespace, a sign, whitespace again, one or more
\* digits and whitespace; the value has no bound.
PyInt(x) ==
    LET y == PyStrip(x)
        sgn == y # << >> /\ y[1] \in {"+", "-"}
        ds == IF sgn THEN PyLStrip(Tail(y)) ELSE y
    IN  IF ds # << >> /\ AllDigits(ds)
        THEN [status |-> "ok", n |-> BigOfMag(sgn /\ y[1] = "-", [i \in 1..Len(ds) |-> DigitVal(ds[i])])]
        ELSE [status |-> "ValueError", n |-> Big(0)]

\* A float: nan, an infinity, or the number digs * 10^exp with the sign
\* neg, digs the decimal digits without zeros at either end (none for 0)
FloatZero(neg) == [kind |-> "fin", neg |-> neg, digs |-> << >>, exp |-> Big(0)]
FloatInf(neg) == [kind |-> "inf", neg |-> neg, digs |-> << >>, exp |-> Big(0)]
FloatNan == [kind |-> "nan", neg |-> FALSE, digs |-> << >>, exp |-> Big(0)]

\* The digits of 2^1024 - 2^970, the least number that rounds to infinity: it
\* lies half way between the largest double and 2^1024, and the tie goes to
\* the even side (0.1797... * 10^309, 309 digits).
FloatHuge == <<1, 7, 9, 7, 6, 9, 3, 1, 3, 4, 8, 6, 2, 3, 1, 5, 8, 0, 7, 9, 3, 7, 2, 8, 9,
               7, 1, 4, 0, 5, 3, 0, 3, 4, 1, 5, 0, 7, 9, 9, 3, 4, 1, 3, 2, 7, 1, 0, 0, 3,
               7, 8, 2, 6, 9, 3, 6, 1, 7, 3, 7, 7, 8, 9, 8, 0, 4, 4, 4, 9, 6, 8, 2, 9, 2,
               7, 6, 4, 7, 5, 0, 9, 4, 6, 6, 4, 9, 0, 1, 7, 9, 7, 7, 5, 8, 7, 2, 0, 7, 0,
               9, 6, 3, 3, 0, 2, 8, 6, 4, 1, 6, 6, 9, 2, 8, 8, 7, 9, 1, 0, 9, 4, 6, 5, 5,
               5, 5, 4, 7, 8, 5, 1, 9, 4, 0, 4, 0, 2, 6, 3, 0, 6, 5, 7, 4, 8, 8, 6, 7, 1,
               5, 0, 5, 8, 2, 0, 6, 8, 1, 9, 0, 8, 9, 0, 2, 0, 0, 0, 7, 0, 8, 3, 8, 3, 6,
               7, 6, 2, 7, 3, 8, 5, 4, 8, 4, 5, 8, 1, 7, 7, 1, 1, 5, 3, 1, 7, 6, 4, 4, 7,
               5, 7, 3, 0, 2, 7, 0, 0, 6, 9, 8, 5, 5, 5, 7, 1, 3, 6, 6, 9, 5, 9, 6, 2, 2,
               8, 4, 2, 9, 1, 4, 8, 1, 9, 8, 6, 0, 8, 3, 4, 9, 3, 6, 4, 7, 5, 2, 9, 2, 7,
               1, 9, 0, 7, 4, 1, 6, 8, 4, 4, 4, 3, 6, 5, 5, 1, 0, 7, 0, 4, 3, 4, 2, 7, 1,
               1, 5, 5, 9, 6, 9, 9, 5, 0, 8, 0, 9, 3, 0, 4, 2, 8, 8, 0, 1, 7, 7, 9, 0, 4,
               1, 7, 4, 4, 9, 7, 7, 9, 2>>

\* The digits of 2^-1075, the largest number that rounds to zero: it lies half
\* way between zero and the least double, 2^-1074, and the tie goes to zero
\* (0.2470... * 10^-323, the 752 digits of 5^1075).
FloatTiny == <<2, 4, 7, 0, 3, 2, 8, 2, 2, 9, 2, 0, 6, 2, 3, 2, 7, 2, 0, 8, 8, 2, 8, 4, 3,
               9, 6, 4, 3, 4, 1, 1, 0, 6, 8, 6, 1, 8, 2, 5, 2, 9, 9, 0, 1, 3, 0, 7, 1, 6,
               2, 3, 8, 2, 2, 1, 2, 7, 9, 2, 8, 4, 1, 2, 5, 0, 3, 3, 7, 7, 5, 3, 6, 3, 5,
               1, 0, 4, 3, 7, 5, 9, 3, 2, 6, 4, 9, 9, 1, 8, 1, 8, 0, 8, 1, 7, 9, 9, 6, 1,
               8, 9, 8, 9, 8, 2, 8, 2, 3, 4, 7, 7, 2, 2, 8, 5, 8, 8, 6, 5, 4, 6, 3, 3, 2,
               8, 3, 5, 5, 1, 7, 7, 9, 6, 9, 8, 9, 8, 1, 9, 9, 3, 8, 7, 3, 9, 8, 0, 0, 5,
               3, 9, 0, 9, 3, 9, 0, 6, 3, 1, 5, 0, 3, 5, 6, 5, 9, 5, 1, 5, 5, 7, 0, 2, 2,
               6, 3, 9, 2, 2, 9, 0, 8, 5, 8, 3, 9, 2, 4, 4, 9, 1, 0, 5, 1, 8, 4, 4, 3, 5,
               9, 3, 1, 8, 0, 2, 8, 4, 9, 9, 3, 6, 5, 3, 6, 1, 5, 2, 5, 0, 0, 3, 1, 9, 3,
               7, 0, 4, 5, 7, 6, 7, 8, 2, 4, 9, 2, 1, 9, 3, 6, 5, 6, 2, 3, 6, 6, 9, 8, 6,
               3, 6, 5, 8, 4, 8, 0, 7, 5, 7, 0, 0, 1, 5, 8, 5, 7, 6, 9, 2, 6, 9, 9, 0, 3,
               7, 0, 6, 3, 1, 1, 9, 2, 8, 2, 7, 9, 5, 5, 8, 5, 5, 1, 3, 3, 2, 9, 2, 7, 8,
               3, 4, 3, 3, 8, 4, 0, 9, 3, 5, 1, 9, 7, 8, 0, 1, 5, 5, 3, 1, 2, 4, 6, 5, 9,
               7, 2, 6, 3, 5, 7, 9, 5, 7, 4, 6, 2, 2, 7, 6, 6, 4, 6, 5, 2, 7, 2, 8, 2, 7,
               2, 2, 0, 0, 5, 6, 3, 7, 4, 0, 0, 6, 4, 8, 5, 4, 9, 9, 9, 7, 7, 0, 9, 6, 5,
               9, 9, 4, 7, 0, 4, 5, 4, 0, 2, 0, 8, 2, 8, 1, 6, 6, 2, 2, 6, 2, 3, 7, 8, 5,
               7, 3, 9, 3, 4, 5, 0, 7, 3, 6, 3, 3, 9, 0, 0, 7, 9, 6, 7, 7, 6, 1, 9, 3, 0,
               5, 7, 7, 5, 0, 6, 7, 4, 0, 1, 7, 6, 3, 2, 4, 6, 7, 3, 6, 0, 0, 9, 6, 8, 9,
               5, 1, 3, 4, 0, 5, 3, 5, 5, 3, 7, 4, 5, 8, 5, 1, 6, 6, 6, 1, 1, 3, 4, 2, 2,
               3, 7, 6, 6, 6, 7, 8, 6, 0, 4, 1, 6, 2, 1, 5, 9, 6, 8, 0, 4, 6, 1, 9, 1, 4,
               4, 6, 7, 2, 9, 1, 8, 4, 0, 3, 0, 0, 5, 3, 0, 0, 5, 7, 5, 3, 0, 8, 4, 9, 0,
               4, 8, 7, 6, 5, 3, 9, 1, 7, 1, 1, 3, 8, 6, 5, 9, 1, 6, 4, 6, 2, 3, 9, 5, 2,
               4, 9, 1, 2, 6, 2, 3, 6, 5, 3, 8, 8, 1, 8, 7, 9, 6, 3, 6, 2, 3, 9, 3, 7, 3,
               2, 8, 0, 4, 2, 3, 8, 9, 1, 0, 1, 8, 6, 7, 2, 3, 4, 8, 4, 9, 7, 6, 6, 8, 2,
               3, 5, 0, 8, 9, 8, 6, 3, 3, 8, 8, 5, 8, 7, 9, 2, 5, 6, 2, 8, 3, 0, 2, 7, 5,
               5, 9, 9, 5, 6, 5, 7, 5, 2, 4, 4, 5, 5, 5, 0, 7, 2, 5, 5, 1, 8, 9, 3, 1, 3,
               6, 9, 0, 8, 3, 6, 2, 5, 4, 7, 7, 9, 1, 8, 6, 9, 4, 8, 6, 6, 7, 9, 9, 4, 9,
               6, 8, 3, 2, 4, 0, 4, 9, 7, 0, 5, 8, 2, 1, 0, 2, 8, 5, 1, 3, 1, 8, 5, 4, 5,
               1, 3, 9, 6, 2, 1, 3, 8, 3, 7, 7, 2, 2, 8, 2, 6, 1, 4, 5, 4, 3, 7, 6, 9, 3,
               4, 1, 2, 5, 3, 2, 0, 9, 8, 5, 9, 1, 3, 2, 7, 6, 6, 7, 2, 3, 6, 3, 2, 8, 1,
               2, 5>>

\* 0.a < 0.b for digits a and b written after the point
FracLess(a, b) ==
    MagLess(a \o Repeat(0, Len(b) - Len(a)), b \o Repeat(0, Len(a) - Len(b)))

\* The float of the digits ds times 10^e, the sign neg: the double nearest
\* to it is an infinity from 2^1024 - 2^970 on and zero up to 2^-1075
FloatOf(neg, ds, e) ==
    LET lead == MagStrip(ds)
        last ==
            CHOOSE i \in 1..Len(lead) :
                lead[i] # 0 /\ \A k \in (i + 1)..Len(lead) : lead[k] = 0
        digs == SubSeq(lead, 1, last)
        exp == BigAdd(e, Big(Len(lead) - last))
        point == BigAdd(exp, Big(Len(digs)))
    IN  IF lead = << >> THEN FloatZero(neg)
        ELSE IF BigLess(Big(309), point)
                  \/ (point = Big(309) /\ ~FracLess(digs, FloatHuge))
        THEN FloatInf(neg)
        ELSE IF BigLess(point, Big(-323))
                  \/ (point = Big(-323) /\ ~FracLess(FloatTiny, digs))
        THEN FloatZero(neg)
        ELSE [kind |-> "fin", neg |-> neg, digs |-> digs, exp |-> exp]

\* PyFloat, given b
PyFloat_b(x, b) ==
    LET y == PyStrip(x)
        sgn == y # << >> /\ y[1] \in {"+", "-"}
        neg == sgn /\ y[1] = "-"
    IN  LET i1 == RunEnd(b, 1, IsDigit)
            hasdot == i1 <= Len(b) /\ b[i1] = "."
            f0 == IF hasdot THEN i1 + 1 ELSE i1
            f1 == RunEnd(b, f0, IsDigit)
            hasexp == f1 <= Len(b) /\ b[f1] \in {"e", "E"}
            esgn == f1 + 1 <= Len(b) /\ b[f1 + 1] \in {"+", "-"}
            e0 == IF esgn THEN f1 + 2 ELSE f1 + 1
            e1 == RunEnd(b, e0, IsDigit)
            intd == SubSeq(b, 1, i1 - 1)
            fracd == SubSeq(b, f0, f1 - 1)
            expd == SubSeq(b, e0, e1 - 1)
            ten ==
                IF hasexp
                THEN BigOfMag(esgn /\ b[f1 + 1] = "-", [i \in 1..Len(expd) |-> DigitVal(expd[i])])
                ELSE Big(0)
            number ==
                /\ Len(intd) + Len(fracd) >= 1
                /\ IF hasexp THEN expd # << >> /\ e1 = Len(b) + 1 ELSE f1 = Len(b) + 1
            ok(f) == [status |-> "ok", f |-> f]
        IN  IF PyLower(b) \in {<<"i", "n", "f">>, <<"i", "n", "f", "i", "n", "i", "t", "y">>}
            THEN ok(FloatInf(neg))
            ELSE IF PyLower(b) = <<"n", "a", "n">> THEN ok(FloatNan)
            ELSE IF number
            THEN ok(FloatOf(neg, [i \in 1..(Len(intd) + Len(fracd)) |->
                                     DigitVal((intd \o fracd)[i])],
                            BigAdd(ten, Big(0 - Len(fracd)))))
            ELSE [status |-> "ValueError", f |-> FloatZero(FALSE)]

\* float(x): whitespace around; a sign; digits with at most one dot among
\* them and at least one digit, then possibly e or E, a sign and one or
\* more digits; or inf, infinity or nan in any case
PyFloat(x) ==
    LET y == PyStrip(x)
        sgn == y # << >> /\ y[1] \in {"+", "-"}
        neg == sgn /\ y[1] = "-"
    IN  PyFloat_b(x, IF sgn THEN Tail(y) ELSE y)

-----------------------------------------------------------------------------
(* Formats *)

FmtYMD == <<"%", "Y", "-", "%", "m", "-", "%", "d">>
FmtHMS == <<"%", "H", ":", "%", "M", ":", "%", "S">>
FmtDateTime == FmtYMD \o <<" ">> \o FmtHMS
FmtDateHM == FmtYMD \o <<" ", "%", "H", ":", "%", "M">>
SufFRAC == <<".", "F", "R", "A", "C">>
SufOPTFRAC == <<".", "O", "P", "T", "F", "R", "A", "C">>

\* The default format of str_to_time.
StrToTimeDefault == FmtDateTime \o SufOPTFRAC

\* The default format of time_to_str.
TimeToStrDefault == FmtDateTime \o <<".", "%", ".", "3", "f">>

-----------------------------------------------------------------------------
(* str_to_time *)

TimeError(e) == [status |-> e, sec |-> Big(0), frac |-> FloatZero(FALSE)]

\* ParseAndAdd, given p
ParseAndAdd_p(fracsec, p) ==
    IF fracsec.status # "ok" THEN TimeError(fracsec.status)
    ELSE IF p.status # "ok" THEN TimeError(p.status)
    ELSE [status |-> "ok", sec |-> timegm(p.tm), frac |-> fracsec.f]

\* The last statement of str_to_time:
\* calendar.timegm(time.strptime(s, format)) + fracsec.  The float returned
\* is float(sec) + frac.
ParseAndAdd(s, format, fracsec) ==
    ParseAndAdd_p(fracsec, strptime(s, format))

\* fracsec = 0.
ZeroFrac == [status |-> "ok", f |-> FloatZero(FALSE)]

\* FracMissing with the test for a missing dot left out
FracMissing_never(dotpos) == FALSE

\* "if dotpos == -1" of the '.FRAC' branch: the text has no dot
FracMissing(dotpos) == dotpos = -1

\* str_to_time(s, format): the seconds and the fraction whose sum is
\* returned, or the exception.
str_to_time(s, format) ==
    LET dotpos == PyRFind(s, ".")
    IN  IF PyEndsWith(format, SufFRAC)
        THEN IF FracMissing(dotpos) THEN TimeError("FractionalSecondsMissing")
             ELSE ParseAndAdd(PySlice(s, 0, dotpos), PySlice(format, 0, -5),
                              PyFloat(PyFrom(s, dotpos)))
        ELSE IF PyEndsWith(format, SufOPTFRAC)
        THEN ParseAndAdd(PySlice(s, 0, dotpos), PySlice(format, 0, -8),
                         IF dotpos # -1 /\ Len(PyFrom(s, dotpos)) > 1
                         THEN PyFloat(PyFrom(s, dotpos)) ELSE ZeroFrac)
        ELSE ParseAndAdd(s, format, ZeroFrac)

-----------------------------------------------------------------------------
(* unpack_fixed *)

\* A value of the result list: None, a string (s), an integer (n) or a
\* floating point number (f).
PyNone == [t |-> "None", s |-> << >>, n |-> Big(0), f |-> FloatZero(FALSE)]
PyStr(x) == [t |-> "str", s |-> x, n |-> Big(0), f |-> FloatZero(FALSE)]
PyIntVal(k) == [t |-> "int", s |-> << >>, n |-> k, f |-> FloatZero(FALSE)]
PyFloatVal(x) == [t |-> "float", s |-> << >>, n |-> Big(0), f |-> x]

Raised(e) == [status |-> e, val |-> PyNone]
Returned(v) == [status |-> "ok", val |-> v]

\* What a caller gives in callargs for '@' fields: Python's len, which accepts
\* every text; Python's int, which raises on a text that is no integer; a
\* function that returns None for every text (lambda s: None); and None, which
\* is no function.
Callbacks == {"len", "int", "to_none", "None"}

\* CastInt, given r
CastInt_r(r) ==
    IF r.status = "ok" THEN Returned(PyIntVal(r.n)) ELSE Raised(r.status)

\* int as a cast: the integer, or the ValueError
CastInt(x) ==
    CastInt_r(PyInt(x))

\* CastFloat, given r
CastFloat_r(r) ==
    IF r.status = "ok" THEN Returned(PyFloatVal(r.f)) ELSE Raised(r.status)

\* float as a cast
CastFloat(x) ==
    CastFloat_r(PyFloat(x))

\* cb(x) for an entry of callargs (calling None is a TypeError)
CallbackApply(cb, x) ==
    CASE cb = "len" -> Returned(PyIntVal(Big(Len(x))))
      [] cb = "int" -> CastInt(x)
      [] cb = "to_none" -> Returned(PyNone)
      [] cb = "None" -> Raised("TypeError")

FieldTypes == {"x", "A", "a", "i", "f", "@"}

\* cast(s) for the cast the type selects ('@': the callback cb)
Cast(typ, cb, x) ==
    CASE typ = "A" -> Returned(PyStr(x))
      [] typ = "a" -> Returned(PyStr(PyStrip(x)))
      [] typ = "i" -> CastInt(x)
      [] typ = "f" -> CastFloat(x)
      [] typ = "@" -> CallbackApply(cb, x)

\* The exception that left the call and the range its message names (an
\* exception that names none: -1)
NoError == [type |-> "", lo |-> Big(-1), hi |-> Big(-1)]
Error(e) == [type |-> e, lo |-> Big(-1), hi |-> Big(-1)]

\* The locals of unpack_fixed before its loop: forms is format.split(','),
\* fi the position (from 1) of the next form, calls the callbacks invoked so
\* far (pos: index into callargs, field: position of the form, arg: the text).
unpack_begin(format) ==
    [pc |-> "loop", forms |-> PySplit(format, ","), fi |-> 1, ipos |-> Big(0),
     values |-> << >>, icall |-> 0, calls |-> << >>, err |-> NoError]

Raise(f, e) == [f EXCEPT !.pc = "raised", !.err = e]

\* FieldBlank without the strip: only an empty slice is blank
FieldBlank_exact(optional, s) == optional /\ s = << >>

\* "optional and s.strip() == ''"
FieldBlank(optional, s) == optional /\ PyStrip(s) = << >>

\* CallIndexAfter without the increment
CallIndexAfter_same(icall) == icall

\* icall after "cast = callargs[icall]; icall += 1"
CallIndexAfter(icall) == icall + 1

\* CursorAfter with 1 written for l
CursorAfter_one(ipos, l) == BigAdd(ipos, Big(1))

\* ipos after "ipos += l"
CursorAfter(ipos, l) == BigAdd(ipos, l)

\* "cast is not None": the type is not 'x', and the entry of callargs taken
\* for an '@' field is not None
CastGiven(typ, cb) == typ # "x" /\ ~(typ = "@" /\ cb = "None")

\* unpack_step, given r, next
unpack_step_r(f, callargs, s, r, next) ==
    LET form0 == f.forms[f.fi]
        optional == form0[Len(form0)] = "?"
        form == PyRStripChar(form0, "?")
        typ == form[1]
        w == PyInt(Tail(form))
        extra == typ = "@"
        cb == IF extra THEN callargs[f.icall + 1] ELSE "None"
        icall2 == IF extra THEN CallIndexAfter(f.icall) ELSE f.icall
    IN  IF form0 = << >> \/ form = << >> THEN Raise(f, Error("IndexError"))
        ELSE IF w.status # "ok" THEN Raise(f, Error("ValueError"))
        ELSE IF typ \notin FieldTypes THEN Raise(f, Error("KeyError"))
        ELSE IF extra /\ f.icall >= Len(callargs) THEN Raise(f, Error("IndexError"))
        ELSE IF ~CastGiven(typ, cb) THEN next
        ELSE IF FieldBlank(optional, s)
        THEN [next EXCEPT !.values = Append(f.values, PyNone)]
        ELSE LET called ==
                     IF extra
                     THEN Append(f.calls, [pos |-> f.icall, field |-> f.fi, arg |-> s])
                     ELSE f.calls
             IN  IF r.status # "ok"
                 THEN Raise([f EXCEPT !.icall = icall2, !.calls = called], Error("NameError"))
                 ELSE [next EXCEPT !.values = Append(f.values, r.val), !.calls = called]

\* unpack_step, given s
unpack_step_s(f, callargs, s) ==
    LET form0 == f.forms[f.fi]
        form == PyRStripChar(form0, "?")
        typ == form[1]
        w == PyInt(Tail(form))
        l == w.n
    IN  LET extra == typ = "@"
            cb == IF extra THEN callargs[f.icall + 1] ELSE "None"
            icall2 == IF extra THEN CallIndexAfter(f.icall) ELSE f.icall
        IN  unpack_step_r(f, callargs, s,
                Cast(typ, cb, s),
                [f EXCEPT !.fi = f.fi + 1, !.ipos = CursorAfter(f.ipos, l), !.icall = icall2])

\* One iteration of the loop of unpack_fixed, for the form at position f.fi.
\* An exception of the cast is caught by a clause that raises
\* SeisanResponseFileError, a name that nothing defines.
unpack_step(f, line, callargs) ==
    LET form0 == f.forms[f.fi]
        optional == form0[Len(form0)] = "?"
        form == PyRStripChar(form0, "?")
        typ == form[1]
        w == PyInt(Tail(form))
        l == w.n
    IN  unpack_step_s(f, callargs, PySliceBig(line, f.ipos, BigAdd(f.ipos, l)))

\* The end of the loop: return values
unpack_return(f) == [f EXCEPT !.pc = "returned"]

\* unpack_fixed(format, line, *callargs), run to its end.
RECURSIVE unpack_run(_, _, _)
unpack_run(f, line, callargs) ==
    IF f.pc # "loop" THEN f
    ELSE IF f.fi > Len(f.forms) THEN unpack_return(f)
    ELSE unpack_run(unpack_step(f, line, callargs), line, callargs)

unpack_fixed(format, line, callargs) == unpack_run(unpack_begin(format), line, callargs)

-----------------------------------------------------------------------------
(* mk_decitab, decitab *)

RECURSIVE LoopM(_, _, _, _, _, _)
RECURSIVE LoopL(_, _, _, _, _)
RECURSIVE LoopK(_, _, _, _)
RECURSIVE LoopJ(_, _, _)
RECURSIVE LoopI(_, _)

\* The loop nest of mk_decitab, as the sequence of the tuples (i,j,k,l,m) with
\* which it reaches the statement "if p not in tab", in the order it does.

\* LoopM with range(1,l+2) for range(1,l+1)
LoopM_offByOne(i, j, k, l, m, nmax) ==
    IF m >= l + 2 THEN << >>
    ELSE IF i * j * k * l * m > nmax THEN << >>
    ELSE <<(<<i, j, k, l, m>>)>> \o LoopM(i, j, k, l, m + 1, nmax)

\* for m in range(1,l+1), from m on: left when p > nmax
LoopM(i, j, k, l, m, nmax) ==
    IF m >= l + 1 THEN << >>
    ELSE IF i * j * k * l * m > nmax THEN << >>
    ELSE <<(<<i, j, k, l, m>>)>> \o LoopM(i, j, k, l, m + 1, nmax)

\* for l in range(1,k+1), from l on: left after an l with i*j*k*l > nmax
LoopL(i, j, k, l, nmax) ==
    IF l >= k + 1 THEN << >>
    ELSE LoopM(i, j, k, l, 1, nmax)
            \o (IF i * j * k * l > nmax THEN << >> ELSE LoopL(i, j, k, l + 1, nmax))

\* for k in range(1,j+1), from k on: left after a k with i*j*k > nmax
LoopK(i, j, k, nmax) ==
    IF k >= j + 1 THEN << >>
    ELSE LoopL(i, j, k, 1, nmax)
            \o (IF i * j * k > nmax THEN << >> ELSE LoopK(i, j, k + 1, nmax))

\* for j in range(1,i+1), from j on: left after a j with i*j > nmax
LoopJ(i, j, nmax) ==
    IF j >= i + 1 THEN << >>
    ELSE LoopK(i, j, 1, nmax)
            \o (IF i * j > nmax THEN << >> ELSE LoopJ(i, j + 1, nmax))

\* for i in range(1,10), from i on: left after an i with i > nmax
LoopI(i, nmax) ==
    IF i >= 10 THEN << >>
    ELSE LoopJ(i, 1, nmax)
            \o (IF i > nmax THEN << >> ELSE LoopI(i + 1, nmax))

Product(v) == v[1] * v[2] * v[3] * v[4] * v[5]

\* "if p not in tab: tab[p] = (i,j,k,l,m)" done for the tuples of visits in
\* their order: a key the table has keeps its entry, a new key gets the first
\* tuple of visits with that product.
StoreAll(tab, visits) ==
    LET first(p) ==
            CHOOSE n \in 1..Len(visits) :
                /\ Product(visits[n]) = p
                /\ \A q \in 1..(n - 1) : Product(visits[q]) # p
    IN  [p \in DOMAIN tab \cup {Product(visits[n]) : n \in 1..Len(visits)} |->
            IF p \in DOMAIN tab THEN tab[p] ELSE visits[first(p)]]

\* mk_decitab(nmax) on the globals G
mk_decitab(G, nmax) ==
    [G EXCEPT !.decitab = StoreAll(G.decitab, LoopI(1, nmax)), !.decitab_nmax = nmax]

\* decitab(n) on the globals G: the globals after the call and its result.
\* The raise statement evaluates the name ratio, which nothing defines.
decitab(G, n) ==
    LET G1 == IF n > G.decitab_nmax THEN mk_decitab(G, n * 2) ELSE G
    IN  IF n \notin DOMAIN G1.decitab
        THEN [G |-> G1, status |-> "NameError", val |-> << >>]
        ELSE [G |-> G1, status |-> "ok", val |-> G1.decitab[n]]

\* ==== STATE MACHINE
-----------------------------------------------------------------------------
(* The inputs the calls are made with *)

Str2009 == <<"2", "0", "0", "9", "-", "0", "1", "-", "0", "1">>

EpochWholes == {-86400, -1, 0, 59, 951868799, 1230768000, 1234567890}
EpochTicks ==
    {0, 1, TicksPerSec \div 20, TicksPerSec \div 2, TicksPerSec - 2, TicksPerSec - 1}

\* The epoch values whole + ticks/TicksPerSec, ticks carrying the sign.
EpochValues ==
    {[whole |-> w, ticks |-> k] : w \in {x \in EpochWholes : x >= 0}, k \in EpochTicks}
        \cup {[whole |-> w, ticks |-> 0 - k] : w \in {x \in EpochWholes : x <= 0}, k \in EpochTicks}

OutFormats ==
    {TimeToStrDefault, FmtDateTime, FmtYMD, <<"%", ".", "3", "f">>,
     FmtDateTime \o <<".", "%", ".", "1", "f">>, FmtHMS \o <<"%", ".", "0", "f">>,
     <<"%", "d", "1", "f">>, FmtYMD \o <<" ", "%", "S", "0", "f">>,
     <<"%", "Y", "%", "%", "2", "f">>,
     <<"%", "s", "1", "f">>, <<"%", "1", "1", "f">>, <<"%", "c", "1", "f">>,
     <<"%", "\n", "1", "f">>, <<"%", "j", " ", "%", "y", " ", "%", "b", " ", "%", "a">>}

FmtMD == <<"%", "m", "-", "%", "d">>

BaseFormats == {FmtDateTime, FmtDateHM, FmtYMD, FmtMD}

InFormats ==
    BaseFormats \cup {F \o SufOPTFRAC : F \in BaseFormats}
        \cup {F \o SufFRAC : F \in BaseFormats}
        \cup {<<"%", "Y", " ", "%", "Y">>}

GivenTexts ==
    {Str2009,
     Str2009 \o <<" ", "0", "0", ":", "0", "7">>,
     Str2009 \o <<" ", "0", "0", ":", "0", "0", ":", "0", "0">>,
     Str2009 \o <<" ", "0", "0", ":", "0", "0", ":", "0", "5">>,
     Str2009 \o <<"\t", "0", "0", ":", "0", "0", ":", "0", "5">>,
     Str2009 \o <<" ", "0", "0", ":", "0", "0", ":", "0", "0", ".", "5">>,
     Str2009 \o <<" ", "0", "0", ":", "0", "0", ":", "0", "0", ".", "5", "e", "1">>,
     Str2009 \o <<" ", "0", "0", ":", "0", "5", ".", "5", "\n">>,
     Str2009 \o <<" ", "0", "0", ":", "0", "0", ":", "0", "5", ".">>,
     Str2009 \o <<" ", "2", "3", ":", "5", "9", ":", "5", "9", ".", "1", "2", "5", " ">>,
     <<"2", "0", "0", "9", "-", "0", "2", "-", "3", "0">>,
     <<"0", "0", "0", "0", "-", "0", "1", "-", "0", "1">>,
     <<"0", "2", "-", "2", "9">>,
     <<"2", "0", "0", "9", " ", "2", "0", "0", "9">>,
     <<"n", "o", "w">>,
     << >>}

FieldDescriptors ==
    {<<"A", "2">>, <<"a", "3", "?">>, <<"i", "2">>, <<"f", "3", "?">>,
     <<"@", "2">>, <<"@", "2", "?">>, <<"x", "1">>}

RECURSIVE FormatsOf(_)
FormatsOf(n) ==
    IF n <= 1 THEN FieldDescriptors
    ELSE {f \o <<",">> \o d : f \in FormatsOf(n - 1), d \in FieldDescriptors}

\* Formats of one to MaxFields fields, formats whose width is negative or
\* written with blanks, and malformed ones.
UnpackFormats ==
    UNION {FormatsOf(n) : n \in 1..MaxFields}
        \cup {<< >>, <<"q", "2">>, <<"A">>, <<"?">>, <<"x", "2", ",", "i", "x">>,
              <<"x", "3", ",", "i", "-", " ", "1", ",", "A", "\t", "2">>,
              <<"a", "?", "3", "?">>}

UnpackLines ==
    {<<"A", "B", "1", "2", " ", "1", "e", "2", " ", " ">>,
     <<" ", "\t", "7", " ", " ", "x", "y">>,
     <<"4", "2", "\t", "\n">>}

UnpackCallargs ==
    {<< >>, <<"int", "len">>, <<"len", "int", "len">>, <<"to_none", "len", "None">>}

-----------------------------------------------------------------------------
(* The state machine *)

NoText == [status |-> "ok", str |-> << >>]
NoTime == TimeError("none")
Idle == [pc |-> "idle", forms |-> << >>, fi |-> 1, ipos |-> Big(0),
         values |-> << >>, icall |-> 0, calls |-> << >>, err |-> NoError]
NoCall == [op |-> "none", n |-> 0, status |-> "ok", val |-> << >>]

\* The time codec: the arguments of a call time_to_str(tin, ofmt), or of a
\* call str_to_time(txt.str, ifmt), about to be made.
InitTimeArgs ==
    \/ /\ tpc = "to_str"
       /\ tin \in EpochValues
       /\ ofmt \in OutFormats
       /\ txt = NoText
       /\ ifmt = << >>
    \/ /\ tpc = "to_time"
       /\ tin = [whole |-> 0, ticks |-> 0]
       /\ ofmt = << >>
       /\ txt \in {[status |-> "ok", str |-> s] : s \in GivenTexts}
       /\ ifmt \in InFormats

NoTimeArgs ==
    /\ tpc = "idle"
    /\ tin = [whole |-> 0, ticks |-> 0]
    /\ ofmt = << >>
    /\ txt = NoText
    /\ ifmt = << >>

\* The unpacker: the arguments of a call unpack_fixed(uformat, uline, *ucallargs)
InitUnpackArgs ==
    /\ uformat \in UnpackFormats
    /\ uline \in UnpackLines
    /\ ucallargs \in UnpackCallargs

NoUnpackArgs ==
    /\ uformat = << >>
    /\ uline = << >>
    /\ ucallargs = << >>

\* A behaviour exercises one component: the codec and the unpacker on the
\* arguments of one call, the decimation table by any sequence of calls.
Init ==
    /\ focus \in {"time", "unpack", "decitab"}
    /\ GlobalVars = [decitab_nmax |-> 0, decitab |-> << >>, re_frac |-> "None"]
    /\ IF focus = "time" THEN InitTimeArgs ELSE NoTimeArgs
    /\ IF focus = "unpack" THEN InitUnpackArgs ELSE NoUnpackArgs
    /\ tres = NoTime
    /\ u = Idle
    /\ dres = NoCall

\* The call time_to_str(tin, ofmt)
TimeToStr ==
    /\ focus = "time"
    /\ tpc = "to_str"
    /\ GlobalVars' = [GlobalVars EXCEPT !.re_frac = "compiled"]
    /\ txt' = time_to_str(tin, ofmt)
    /\ tpc' = "formatted"
    /\ UNCHANGED <<focus, tin, ofmt, ifmt, tres, uformat, uline, ucallargs, u, dres>>

\* A call str_to_time(s, format) on the text time_to_str returned
StrToTimeBack ==
    /\ focus = "time"
    /\ tpc = "formatted"
    /\ txt.status = "ok"
    /\ \E f \in InFormats :
          /\ ifmt' = f
          /\ tres' = str_to_time(txt.str, f)
    /\ tpc' = "roundtrip"
    /\ UNCHANGED <<focus, GlobalVars, tin, ofmt, txt, uformat, uline, ucallargs, u, dres>>

\* The call str_to_time(txt.str, ifmt) on a given text
StrToTime ==
    /\ focus = "time"
    /\ tpc = "to_time"
    /\ tres' = str_to_time(txt.str, ifmt)
    /\ tpc' = "parsed"
    /\ UNCHANGED <<focus, GlobalVars, tin, ofmt, txt, ifmt, uformat, uline, ucallargs, u, dres>>

\* The call unpack_fixed(uformat, uline, *ucallargs): up to the loop
UnpackCall ==
    /\ focus = "unpack"
    /\ u.pc = "idle"
    /\ u' = unpack_begin(uformat)
    /\ UNCHANGED <<focus, GlobalVars, tin, ofmt, txt, ifmt, tres, tpc,
                   uformat, uline, ucallargs, dres>>

\* One iteration of the loop
UnpackField ==
    /\ focus = "unpack"
    /\ u.pc = "loop"
    /\ u.fi <= Len(u.forms)
    /\ u' = unpack_step(u, uline, ucallargs)
    /\ UNCHANGED <<focus, GlobalVars, tin, ofmt, txt, ifmt, tres, tpc,
                   uformat, uline, ucallargs, dres>>

\* The return after the loop
UnpackReturn ==
    /\ focus = "unpack"
    /\ u.pc = "loop"
    /\ u.fi > Len(u.forms)
    /\ u' = unpack_return(u)
    /\ UNCHANGED <<focus, GlobalVars, tin, ofmt, txt, ifmt, tres, tpc,
                   uformat, uline, ucallargs, dres>>

\* A call mk_decitab(nmax)
MkDecitab ==
    /\ focus = "decitab"
    /\ \E nmax \in 0..(2 * MaxDecim) :
          /\ GlobalVars' = mk_decitab(GlobalVars, nmax)
          /\ dres' = [op |-> "mk_decitab", n |-> nmax, status |-> "ok", val |-> << >>]
    /\ UNCHANGED <<focus, tin, ofmt, txt, ifmt, tres, tpc, uformat, uline, ucallargs, u>>

\* A call decitab(n)
Decitab ==
    /\ focus = "decitab"
    /\ \E n \in 1..MaxDecim :
          LET r == decitab(GlobalVars, n)
          IN  /\ GlobalVars' = r.G
              /\ dres' = [op |-> "decitab", n |-> n, status |-> r.status, val |-> r.val]
    /\ UNCHANGED <<focus, tin, ofmt, txt, ifmt, tres, tpc, uformat, uline, ucallargs, u>>

Next ==
    \/ TimeToStr
    \/ StrToTimeBack
    \/ StrToTime
    \/ UnpackCall
    \/ UnpackField
    \/ UnpackReturn
    \/ MkDecitab
    \/ Decitab

Spec == Init /\ [][Next]_vars

-----------------------------------------------------------------------------
(* What the claims speak of, stated from the arguments of the call *)

NoDot(s) == \A i \in 1..Len(s) : s[i] # "."

\* The format without its suffix
BaseOf(format, suffix) == SubSeq(format, 1, Len(format) - Len(suffix))

\* A str_to_time call has returned or raised
TimeParsed == tpc \in {"roundtrip", "parsed"}

\* a * 10^k
BigShift(a, k) == BigOfMag(a.neg, a.mag \o Repeat(0, k))

\* The number of decimals of the fraction str_to_time added
FracDecimals == IF tres.frac.exp.neg THEN BigToInt(BigNeg(tres.frac.exp)) ELSE 0

\* The number str_to_time returned, in units of 10^-FracDecimals seconds
ParsedScaled ==
    BigAdd(BigShift(tres.sec, FracDecimals),
           BigOfMag(tres.frac.neg,
                    tres.frac.digs \o Repeat(0, BigToInt(tres.frac.exp) + FracDecimals)))

\* The number given to time_to_str, in ticks
GivenTicks == BigAdd(BigMulSmall(Big(tin.whole), TicksPerSec), Big(tin.ticks))

\* tres - tin in units of 1/(TicksPerSec * 10^FracDecimals) seconds
RoundTripDiff ==
    BigAdd(BigMulSmall(ParsedScaled, TicksPerSec),
           BigNeg(BigShift(GivenTicks, FracDecimals)))

\* |tres - tin| < 0.0005
RoundTripClose ==
    /\ tres.frac.kind = "fin"
    /\ MagLess(MagMul(RoundTripDiff.mag, 2000, 0),
               MagOfNat(TicksPerSec) \o Repeat(0, FracDecimals))

\* The fractional-digit directive: a percent sign, a dot, a digit, an f
HasFracDirective(format) ==
    \E i \in 1..(Len(format) - 3) :
        /\ format[i] = "%"
        /\ format[i + 1] = "."
        /\ IsDigit(format[i + 2])
        /\ format[i + 3] = "f"

\* The fields of the format given to unpack_fixed
Fields == PySplit(uformat, ",")
FieldType(n) == Fields[n][1]
FieldOptional(n) == Fields[n][Len(Fields[n])] = "?"
FieldWidthText(n) == Tail(PyRStripChar(Fields[n], "?"))
FieldWidth(n) == PyInt(FieldWidthText(n)).n

\* The sum of the declared widths of fields 1..n
RECURSIVE WidthSum(_)
WidthSum(n) == IF n <= 0 THEN Big(0) ELSE BigAdd(WidthSum(n - 1), FieldWidth(n))

\* The slice of the line field n is declared to occupy
FieldSlice(n) ==
    PySliceBig(uline, WidthSum(n - 1), BigAdd(WidthSum(n - 1), FieldWidth(n)))

\* The slice is empty or of whitespace only
FieldSliceBlank(n) == \A i \in 1..Len(FieldSlice(n)) : FieldSlice(n)[i] \in Whitespace

\* The number of '@' fields among fields 1..n
AtCount(n) == Cardinality({k \in 1..n : FieldType(k) = "@"})

\* The entry of callargs bound to field n, an '@' field
FieldCallback(n) == ucallargs[AtCount(n)]

\* The conversion of field n applied to its slice
FieldConversion(n) ==
    Cast(FieldType(n),
         IF FieldType(n) = "@" THEN FieldCallback(n) ELSE "None",
         FieldSlice(n))

\* The positions of the fields that are not of type 'x', in declaration order
RECURSIVE ValueFields(_)
ValueFields(n) ==
    IF n <= 0 THEN << >>
    ELSE ValueFields(n - 1) \o (IF FieldType(n) = "x" THEN << >> ELSE <<n>>)

\* The positions of the fields that have a conversion, in declaration order:
\* those not of type 'x' and not '@' fields bound to None
RECURSIVE ConvertedFields(_)
ConvertedFields(n) ==
    IF n <= 0 THEN << >>
    ELSE ConvertedFields(n - 1)
             \o (IF FieldType(n) = "x" \/ (FieldType(n) = "@" /\ FieldCallback(n) = "None")
                 THEN << >> ELSE <<n>>)

\* Field u.fi is one whose conversion was attempted and raised
ConversionRaised ==
    /\ u.pc = "raised"
    /\ u.fi <= Len(Fields)
    /\ Fields[u.fi] # << >>
    /\ PyRStripChar(Fields[u.fi], "?") # << >>
    /\ FieldType(u.fi) \in FieldTypes \ {"x"}
    /\ PyInt(FieldWidthText(u.fi)).status = "ok"
    /\ FieldType(u.fi) = "@" => (AtCount(u.fi) <= Len(ucallargs) /\ FieldCallback(u.fi) # "None")
    /\ ~(FieldOptional(u.fi) /\ FieldSliceBlank(u.fi))
    /\ FieldConversion(u.fi).status # "ok"

\* n is a product of five integers of 1..9
Available(n) ==
    \E i \in 1..9 : \E j \in 1..i : \E k \in 1..j : \E l \in 1..k : \E m \in 1..l :
        i * j * k * l * m = n

-----------------------------------------------------------------------------
(* The claims *)

\* C1: a text made by time_to_str with the default format, parsed back by
\* str_to_time with the default format, gives an epoch value that differs from
\* the one formatted by less than 0.0005 s, for every fractional part.
C1_RoundTrip ==
    (tpc = "roundtrip" /\ ofmt = TimeToStrDefault /\ ifmt = StrToTimeDefault)
        => (tres.status = "ok" /\ RoundTripClose)

\* C2: for a text without a dot, str_to_time with the format F + '.OPTFRAC'
\* returns what str_to_time returns with the format F.
C2_OptFracNoDot ==
    (TimeParsed /\ PyEndsWith(ifmt, SufOPTFRAC) /\ NoDot(txt.str))
        => tres = str_to_time(txt.str, BaseOf(ifmt, SufOPTFRAC))

\* C3: for a text without a dot and a format that ends in '.FRAC', str_to_time
\* raises FractionalSecondsMissing, whether or not the text matches the rest
\* of the format.
C3_FracMissing ==
    (TimeParsed /\ PyEndsWith(ifmt, SufFRAC) /\ NoDot(txt.str))
        => tres.status = "FractionalSecondsMissing"

\* C3's case: a text without a dot that the rest of the format does not match
C3_Witness ==
    /\ tpc = "parsed"
    /\ PyEndsWith(ifmt, SufFRAC)
    /\ NoDot(txt.str)
    /\ strptime(txt.str, BaseOf(ifmt, SufFRAC)).status = "ValueError"
    /\ tres.status = "FractionalSecondsMissing"

\* C4: the list unpack_fixed returns has one entry per field that is not of
\* type 'x', in declaration order; the entry is None exactly when the field is
\* optional and its slice is empty or whitespace, and is otherwise the field's
\* conversion of the slice line[cursor : cursor+width].
C4_ResultShape ==
    u.pc = "returned" =>
        LET vf == ValueFields(Len(Fields))
        IN  /\ Len(u.values) = Len(vf)
            /\ \A p \in 1..Len(vf) :
                  /\ u.values[p] = PyNone <=> (FieldOptional(vf[p]) /\ FieldSliceBlank(vf[p]))
                  /\ u.values[p] # PyNone => u.values[p] = FieldConversion(vf[p]).val

\* C4, amended: the list unpack_fixed returns has one entry per field that
\* has a conversion (its type is not 'x', and it is no '@' field bound to the
\* entry None of callargs), in declaration order; the entry is None when the
\* field is optional and its slice is empty or whitespace, and is otherwise the
\* field's conversion of the slice line[cursor : cursor+width], which is None
\* as well when a callback returns None.
C4_ResultShapeAmended ==
    u.pc = "returned" =>
        LET cf == ConvertedFields(Len(Fields))
        IN  /\ Len(u.values) = Len(cf)
            /\ \A p \in 1..Len(cf) :
                  u.values[p] = IF FieldOptional(cf[p]) /\ FieldSliceBlank(cf[p])
                                THEN PyNone
                                ELSE FieldConversion(cf[p]).val

\* C4's case: a call returned None for a required field whose callback returns
\* None, None for an optional field whose slice is a tab and a newline, and no
\* entry for an '@' field bound to None
C4_Witness ==
    /\ u.pc = "returned"
    /\ Len(Fields) = 3
    /\ AtCount(3) = 3
    /\ FieldCallback(1) = "to_none" /\ ~FieldOptional(1) /\ ~FieldSliceBlank(1)
    /\ FieldOptional(2) /\ FieldSlice(2) = <<"\t", "\n">>
    /\ FieldCallback(3) = "None"
    /\ u.values = <<PyNone, PyNone>>

\* C5: the k-th '@' field, counted over all '@' fields, is bound to the k-th
\* callback; a callback is invoked at most once, and the callbacks are invoked
\* in the order of the fields.
C5_CallbackOrder ==
    /\ \A c \in 1..Len(u.calls) :
          /\ FieldType(u.calls[c].field) = "@"
          /\ u.calls[c].pos + 1 = AtCount(u.calls[c].field)
          /\ u.calls[c].arg = FieldSlice(u.calls[c].field)
    /\ \A c, e \in 1..Len(u.calls) :
          c < e => (u.calls[c].field < u.calls[e].field /\ u.calls[c].pos < u.calls[e].pos)
    /\ \A n \in 1..(u.fi - 1) :
          (/\ FieldType(n) = "@"
           /\ FieldCallback(n) # "None"
           /\ ~(FieldOptional(n) /\ FieldSliceBlank(n)))
              => \E c \in 1..Len(u.calls) : u.calls[c].field = n

\* C5's case: the first '@' field was blank and optional, the second and the
\* third got the second and the third callback
C5_Witness ==
    /\ u.pc = "returned"
    /\ Len(Fields) = 3
    /\ AtCount(3) = 3
    /\ FieldOptional(1)
    /\ FieldSliceBlank(1)
    /\ Len(u.calls) = 2
    /\ u.calls[1].pos = 1
    /\ u.calls[2].pos = 2

\* C6: when the conversion of a field's slice raises, unpack_fixed fails with
\* the field-conversion error, which names the range [cursor, cursor+width]
\* of the failing field.
C6_ConversionError ==
    ConversionRaised =>
        /\ u.err.type = "SeisanResponseFileError"
        /\ u.err.lo = WidthSum(u.fi - 1)
        /\ u.err.hi = BigAdd(WidthSum(u.fi - 1), FieldWidth(u.fi))

\* C7: before field n the cursor is the sum of the declared widths of fields
\* 1..n-1, whatever their types, whether they are optional or blank, and
\* whether the line is shorter than the cursor.
C7_CursorAdvance ==
    u.pc # "idle" => u.ipos = WidthSum(u.fi - 1)

\* C7's case: past an integer field, a blank optional field and an 'x' field
\* the cursor is beyond the end of the line
C7_Witness ==
    /\ u.pc = "loop"
    /\ u.fi = 4
    /\ FieldType(3) = "x"
    /\ FieldOptional(2)
    /\ u.values = <<PyIntVal(Big(42)), PyNone>>
    /\ BigLess(Big(Len(uline)), u.ipos)

\* C8: decitab(n) for an n that is no product of five integers of 1..9 raises
\* UnavailableDecimation.
C8_Unavailable ==
    (dres.op = "decitab" /\ ~Available(dres.n))
        => dres.status = "UnavailableDecimation"

\* C9: for a format without the characters percent, dot, digit, f, time_to_str
\* returns the UTC strftime of floor(t) with the format as given.
C9_PlainFormat ==
    (tpc = "formatted" /\ ~HasFracDirective(ofmt))
        => txt = strftime(ofmt, gmtime(IF tin.ticks < 0 THEN tin.whole - 1
                                       ELSE tin.whole))

\* Every entry of the table is a tuple 9 >= i >= j >= k >= l >= m >= 1 whose
\* product is its key
TableOk ==
    \A p \in DOMAIN GlobalVars.decitab :
        LET v == GlobalVars.decitab[p]
        IN  /\ Len(v) = 5
            /\ 9 >= v[1] /\ v[1] >= v[2] /\ v[2] >= v[3]
            /\ v[3] >= v[4] /\ v[4] >= v[5] /\ v[5] >= 1
            /\ v[1] * v[2] * v[3] * v[4] * v[5] = p

\* A decitab(n) that returned, returned a tuple whose product is n
ResultOk ==
    (dres.op = "decitab" /\ dres.status = "ok")
        => dres.val[1] * dres.val[2] * dres.val[3] * dres.val[4] * dres.val[5] = dres.n

\* A call leaves every entry of the table as it was
EntriesKept ==
    \A p \in DOMAIN GlobalVars.decitab :
        /\ p \in DOMAIN GlobalVars'.decitab
        /\ GlobalVars'.decitab[p] = GlobalVars.decitab[p]

\* C10: in every state every entry of GlobalVars.decitab is an ordered tuple
\* of factors of 1..9 with its key as product, no call changes or removes an
\* entry, and a decitab(n) that returns, returns a tuple with product n.
C10_TableInvariant == [](TableOk /\ ResultOk) /\ [][EntriesKept]_vars

\* C10's case: after decitab(12) made the table, a second call mk_decitab(3)
\* lowered decitab_nmax and left the entry for 12
C10_Witness ==
    /\ dres.op = "mk_decitab"
    /\ dres.n = 3
    /\ 12 \in DOMAIN GlobalVars.decitab
    /\ GlobalVars.decitab[12] = <<3, 2, 2, 1, 1>>
    /\ GlobalVars.decitab_nmax = 3

====
